---- MODULE Spec2Model ----
(***************************************************************************)
(* The survey analytics of gizmoSurvey (myapp/views.py, myapp/models.py,   *)
(* myapp/forms.py): the per-question aggregation and the survey composer   *)
(* of get_survey_analytics_data, and process_text_for_wordcloud.           *)
(*                                                                         *)
(* A Python str is a sequence of one-character strings, so that isdigit,   *)
(* int, lower, the regular expression and the string comparison of the     *)
(* code are computed character by character.  A Python dict is the         *)
(* sequence of its entries in insertion order.  A percentage is held in    *)
(* tenths of a percent (667 is 66.7).                                      *)
(***************************************************************************)
EXTENDS Integers, Sequences, FiniteSets

VARIABLES
    questions,       \* the Question rows of the survey (a set of records)
    responses,       \* the SurveyResponse rows, in insertion order
    answers,         \* the Answer rows, in insertion order
    pc,              \* "idle" | "returned" | "raised": the analytics request
    analytics_data,  \* what get_survey_analytics_data returned last
    text_responses,  \* the argument of process_text_for_wordcloud
    word_frequency,  \* what process_text_for_wordcloud returned last
    now,             \* timezone.now(): the clock of the server
    request,         \* the dashboard request being served: its user, method, GET
    dashboard_analytics,  \* what the dashboard view computed for the request
    UserProfiles,    \* the UserProfile rows: user id -> role and section
    Surveys,         \* the Survey rows, in the order of Survey.objects.all()
    Sections,        \* the Section rows, in the order of Section.objects.all()
    workers          \* the take_survey requests being served, one per worker

dashboard_vars == <<now, request, dashboard_analytics>>

site_vars == <<UserProfiles, Surveys, Sections, workers>>

vars == <<questions, responses, answers, pc, analytics_data,
          text_responses, word_frequency, dashboard_vars, site_vars>>

(***************************************************************************)
(* Bounds of the model.                                                    *)
(***************************************************************************)
MaxAnswers == 4      \* answers drawn for one question (SpecQuestion)
MaxTally == 6        \* answers drawn for one question (SpecDistribution)
MaxResponses == 3    \* text responses drawn (SpecText)
MaxSubmissions == 2  \* survey responses submitted (SpecDashboard)
MaxTextAnswers == 3  \* text answers drawn for one question (SpecTextAnswers)

(***************************************************************************)
(* Python str operations.                                                  *)
(***************************************************************************)
DigitChars == <<"0", "1", "2", "3", "4", "5", "6", "7", "8", "9">>
LowerChars == <<"a", "b", "c", "d", "e", "f", "g", "h", "i", "j", "k", "l", "m",
                "n", "o", "p", "q", "r", "s", "t", "u", "v", "w", "x", "y", "z">>
UpperChars == <<"A", "B", "C", "D", "E", "F", "G", "H", "I", "J", "K", "L", "M",
                "N", "O", "P", "Q", "R", "S", "T", "U", "V", "W", "X", "Y", "Z">>

Range(s) == {s[i] : i \in DOMAIN s}

IndexOf(s, c) == CHOOSE i \in DOMAIN s : s[i] = c

IsDigitChar(c) == c \in Range(DigitChars)
IsLowerChar(c) == c \in Range(LowerChars)
IsUpperChar(c) == c \in Range(UpperChars)
IsLetterChar(c) == IsLowerChar(c) \/ IsUpperChar(c)

\* The code point of a character (ASCII), for str < str.
ord(c) ==
    IF IsDigitChar(c) THEN 47 + IndexOf(DigitChars, c)
    ELSE IF IsUpperChar(c) THEN 64 + IndexOf(UpperChars, c)
    ELSE IF IsLowerChar(c) THEN 96 + IndexOf(LowerChars, c)
    ELSE CASE c = " " -> 32
           [] c = "'" -> 39
           [] c = "-" -> 45
           [] c = "/" -> 47
           [] c = "_" -> 95

\* str.isdigit(): at least one character, and all of them digits.
isdigit(s) == Len(s) > 0 /\ \A i \in DOMAIN s : IsDigitChar(s[i])

\* int(s) of a string of decimal digits.
RECURSIVE int(_)
int(s) ==
    IF Len(s) = 0 THEN 0
    ELSE 10 * int(SubSeq(s, 1, Len(s) - 1)) + (IndexOf(DigitChars, s[Len(s)]) - 1)

\* s < t of two str: lexicographic by code point.
RECURSIVE StrLess(_, _)
StrLess(s, t) ==
    IF Len(t) = 0 THEN FALSE
    ELSE IF Len(s) = 0 THEN TRUE
    ELSE IF ord(s[1]) # ord(t[1]) THEN ord(s[1]) < ord(t[1])
    ELSE StrLess(Tail(s), Tail(t))

(***************************************************************************)
(* datetime.date, in the proleptic Gregorian calendar.  A date is held as  *)
(* its ordinal (date.toordinal(): 0001-01-01 is 1), so that date <= date   *)
(* is <= and date + timedelta(days=k) is + k.  A datetime is a record of   *)
(* its date and its time of day in minutes.                                *)
(***************************************************************************)
IsLeap(year) == (year % 4 = 0 /\ year % 100 # 0) \/ year % 400 = 0

DaysInMonth(year, month) ==
    IF month = 2 THEN (IF IsLeap(year) THEN 29 ELSE 28)
    ELSE IF month \in {4, 6, 9, 11} THEN 30
    ELSE 31

DaysBeforeMonth(year, month) ==
    <<0, 31, 59, 90, 120, 151, 181, 212, 243, 273, 304, 334>>[month]
        + (IF month > 2 /\ IsLeap(year) THEN 1 ELSE 0)

DaysBeforeYear(year) ==
    LET y == year - 1
    IN  y * 365 + y \div 4 - y \div 100 + y \div 400

\* date(year, month, day).toordinal()
toordinal(year, month, day) ==
    DaysBeforeYear(year) + DaysBeforeMonth(year, month) + day

\* date.fromordinal(n).year, .month, .day
YearOf(n) ==
    CHOOSE year \in (n \div 366)..(n \div 365 + 1) :
        DaysBeforeYear(year) < n /\ n <= DaysBeforeYear(year + 1)

MonthOf(n) ==
    LET year == YearOf(n)
        day_of_year == n - DaysBeforeYear(year)
    IN  CHOOSE month \in 1..12 :
            /\ DaysBeforeMonth(year, month) < day_of_year
            /\ day_of_year <= DaysBeforeMonth(year, month) + DaysInMonth(year, month)

DayOf(n) == n - DaysBeforeYear(YearOf(n)) - DaysBeforeMonth(YearOf(n), MonthOf(n))

\* datetime.date()
DateOf(datetime) == datetime.date

\* The clock when the model starts: 2023-12-31 23:59.
StartTime == [date |-> toordinal(2023, 12, 31), time |-> 23 * 60 + 59]

\* None, as a value that no str is.
None == <<"None">>

\* request.GET of a request without parameters: every get() gives None.
EmptyGET == [survey_id |-> None, section_id |-> None,
             date_from |-> None, date_to |-> None]

\* No dashboard request is being served.
NoRequest == [view |-> "", user |-> 0, method |-> "", GET |-> EmptyGET]

\* A variant of RoundPercentage that cuts the digits after the first
\* decimal off instead of rounding to the nearest tenth.
RoundPercentage_Truncated(count, total) == (count * 1000) \div total

(***************************************************************************)
(* round(count / total * 100, 1), in tenths of a percent: the nearest      *)
(* tenth, a tie going to the even one (Python's round).                    *)
(***************************************************************************)
RoundPercentage(count, total) ==
    LET n == count * 1000
        q == n \div total
        r == n % total
    IN  IF 2 * r < total THEN q
        ELSE IF 2 * r > total THEN q + 1
        ELSE IF q % 2 = 0 THEN q ELSE q + 1

\* (count / total_answers * 100) if total_answers > 0 else 0, rounded.
Percentage(count, total_answers) ==
    IF total_answers > 0 THEN RoundPercentage(count, total_answers) ELSE 0

\* A variant of CountOne that leaves the count of a choice seen before as
\* it is.
CountOne_NoIncrement(counts, choice) ==
    IF \E i \in DOMAIN counts : counts[i].key = choice
    THEN counts
    ELSE Append(counts, [key |-> choice, count |-> 1])

\* A variant of CountOne that puts a new choice in front of the others.
CountOne_NewestFirst(counts, choice) ==
    IF \E i \in DOMAIN counts : counts[i].key = choice
    THEN LET i == CHOOSE j \in DOMAIN counts : counts[j].key = choice
         IN  [counts EXCEPT ![i].count = @ + 1]
    ELSE <<[key |-> choice, count |-> 1]>> \o counts

(***************************************************************************)
(* The grouping loop: counts[choice] = counts.get(choice, 0) + 1 over the  *)
(* answers in query order; the dict keeps its keys in insertion order.     *)
(***************************************************************************)
CountOne(counts, choice) ==
    IF \E i \in DOMAIN counts : counts[i].key = choice
    THEN LET i == CHOOSE j \in DOMAIN counts : counts[j].key = choice
         IN  [counts EXCEPT ![i].count = @ + 1]
    ELSE Append(counts, [key |-> choice, count |-> 1])

RECURSIVE CountChoices(_)
CountChoices(choices) ==
    IF Len(choices) = 0 THEN <<>>
    ELSE CountOne(CountChoices(SubSeq(choices, 1, Len(choices) - 1)),
                  choices[Len(choices)])

\* The stats dict built from the (key, count) items, in their order.
StatsOf(items, total_answers) ==
    [i \in DOMAIN items |->
        [key |-> items[i].key,
         count |-> items[i].count,
         percentage |-> Percentage(items[i].count, total_answers)]]

\* A variant of ChartData that labels a chart without items 'No data'.
ChartData_NoDataLabel(items, type) ==
    IF Len(items) = 0
    THEN [labels |-> <<"No data">>, data |-> <<0>>, type |-> type]
    ELSE [labels |-> [i \in DOMAIN items |-> items[i].key],
          data |-> [i \in DOMAIN items |-> items[i].count],
          type |-> type]

ChartData(items, type) ==
    [labels |-> [i \in DOMAIN items |-> items[i].key],
     data |-> [i \in DOMAIN items |-> items[i].count],
     type |-> type]

(***************************************************************************)
(* sorted(scale_counts.items(),                                            *)
(*        key=lambda x: int(x[0]) if x[0].isdigit() else x[0])             *)
(* The key of an item is an int when its string isdigit(), else the        *)
(* string itself.  int < int is numeric, str < str is lexicographic, and   *)
(* int < str raises TypeError: a sort of two or more items whose keys are  *)
(* of both types has to compare two of them, so it raises.  The sort is    *)
(* stable.                                                                 *)
(***************************************************************************)
SortRaises(items) ==
    \E i, j \in DOMAIN items : isdigit(items[i].key) /\ ~isdigit(items[j].key)

\* key(a) < key(b), for two keys of one type.
KeyLess(a, b) ==
    IF isdigit(a) THEN int(a) < int(b) ELSE StrLess(a, b)

\* item put into the sorted sequence behind every item that is not greater.
Insert(sorted, item) ==
    LET behind == {i \in DOMAIN sorted : ~KeyLess(item.key, sorted[i].key)}
        k == IF behind = {} THEN 0
             ELSE CHOOSE i \in behind : \A j \in behind : j <= i
    IN  SubSeq(sorted, 1, k) \o <<item>> \o SubSeq(sorted, k + 1, Len(sorted))

RECURSIVE SortedScales(_)
SortedScales(items) ==
    IF Len(items) = 0 THEN <<>>
    ELSE Insert(SortedScales(SubSeq(items, 1, Len(items) - 1)), items[Len(items)])

(***************************************************************************)
(* process_text_for_wordcloud.                                             *)
(***************************************************************************)
TopN == 50           \* word_counts.most_common(50)
MinWordLen == 3      \* [a-zA-Z]{3,}

stop_words == {
    <<"t", "h", "e">>, <<"a">>, <<"a", "n">>, <<"a", "n", "d">>,
    <<"o", "r">>, <<"b", "u", "t">>, <<"i", "n">>, <<"o", "n">>,
    <<"a", "t">>, <<"t", "o">>, <<"f", "o", "r">>, <<"o", "f">>,
    <<"w", "i", "t", "h">>, <<"b", "y">>, <<"i", "s">>, <<"a", "r", "e">>,
    <<"w", "a", "s">>, <<"w", "e", "r", "e">>, <<"b", "e">>,
    <<"b", "e", "e", "n">>, <<"h", "a", "v", "e">>, <<"h", "a", "s">>,
    <<"h", "a", "d">>, <<"d", "o">>, <<"d", "o", "e", "s">>,
    <<"d", "i", "d">>, <<"w", "i", "l", "l">>, <<"w", "o", "u", "l", "d">>,
    <<"c", "o", "u", "l", "d">>, <<"s", "h", "o", "u", "l", "d">>,
    <<"m", "a", "y">>, <<"m", "i", "g", "h", "t">>, <<"m", "u", "s", "t">>,
    <<"c", "a", "n">>, <<"t", "h", "i", "s">>, <<"t", "h", "a", "t">>,
    <<"t", "h", "e", "s", "e">>, <<"t", "h", "o", "s", "e">>, <<"i">>,
    <<"y", "o", "u">>, <<"h", "e">>, <<"s", "h", "e">>, <<"i", "t">>,
    <<"w", "e">>, <<"t", "h", "e", "y">>, <<"m", "e">>, <<"h", "i", "m">>,
    <<"h", "e", "r">>, <<"u", "s">>, <<"t", "h", "e", "m">>, <<"m", "y">>,
    <<"y", "o", "u", "r">>, <<"h", "i", "s">>, <<"i", "t", "s">>,
    <<"o", "u", "r">>, <<"t", "h", "e", "i", "r">>, <<"v", "e", "r", "y">>,
    <<"r", "e", "a", "l", "l", "y">>, <<"q", "u", "i", "t", "e">>,
    <<"j", "u", "s", "t">>, <<"o", "n", "l", "y">>, <<"a", "l", "s", "o">>,
    <<"t", "o", "o">>, <<"s", "o">>, <<"a", "s">>, <<"i", "f">>,
    <<"w", "h", "e", "n">>, <<"w", "h", "e", "r", "e">>, <<"w", "h", "y">>,
    <<"h", "o", "w">>, <<"w", "h", "a", "t">>, <<"w", "h", "o">>,
    <<"w", "h", "i", "c", "h">>, <<"t", "h", "e", "r", "e">>,
    <<"h", "e", "r", "e">>, <<"n", "o", "w">>, <<"t", "h", "e", "n">>,
    <<"t", "h", "a", "n">>, <<"m", "o", "r", "e">>, <<"m", "o", "s", "t">>,
    <<"s", "o", "m", "e">>, <<"a", "n", "y">>, <<"a", "l", "l">>,
    <<"b", "o", "t", "h">>, <<"e", "a", "c", "h">>,
    <<"e", "v", "e", "r", "y">>, <<"n", "o">>, <<"n", "o", "t">>,
    <<"y", "e", "s">>
}

\* ' '.join(text_responses)
RECURSIVE Join(_)
Join(strs) ==
    IF Len(strs) = 0 THEN <<>>
    ELSE IF Len(strs) = 1 THEN strs[1]
    ELSE Join(SubSeq(strs, 1, Len(strs) - 1)) \o <<" ">> \o strs[Len(strs)]

\* str.lower()
LowerChar(c) == IF IsUpperChar(c) THEN LowerChars[IndexOf(UpperChars, c)] ELSE c
lower(s) == [i \in DOMAIN s |-> LowerChar(s[i])]

\* \w of the regular expression: a letter, a digit or the underscore.
IsWordChar(c) == IsLetterChar(c) \/ IsDigitChar(c) \/ c = "_"

\* \b in front of position i (1 .. Len(text) + 1): exactly one of the
\* characters around it is a \w character.
WordBoundary(text, i) ==
    LET before == i > 1 /\ IsWordChar(text[i - 1])
        after == i <= Len(text) /\ IsWordChar(text[i])
    IN  before # after

\* The number of [a-zA-Z] characters from position i on.
RECURSIVE LetterRun(_, _)
LetterRun(text, i) ==
    IF i <= Len(text) /\ IsLetterChar(text[i]) THEN 1 + LetterRun(text, i + 1)
    ELSE 0

\* The length of the match of \b[a-zA-Z]{3,}\b at position i, 0 when there
\* is none: the longest run of at least three letters that starts and ends
\* at a \b (the quantifier is greedy).
MatchLen(text, i) ==
    LET lens == {n \in MinWordLen..LetterRun(text, i) : WordBoundary(text, i + n)}
    IN  IF WordBoundary(text, i) /\ lens # {}
        THEN CHOOSE n \in lens : \A m \in lens : m <= n
        ELSE 0

\* 1, 2, ..., n
Positions(n) == [i \in 1..n |-> i]

\* re.findall(pattern, text): the matches left to right, not overlapping.
\* A match starts at a \b in front of a letter and holds letters only, so
\* the pattern matches at no position inside a match: the matches are the
\* matches at all the positions of the text.
FindAll(text) ==
    LET starts == SelectSeq(Positions(Len(text)), LAMBDA i : MatchLen(text, i) > 0)
    IN  [k \in DOMAIN starts |->
            SubSeq(text, starts[k], starts[k] + MatchLen(text, starts[k]) - 1)]

\* A variant of FilteredWords that keeps every word.
FilteredWords_KeepAll(words) == words

\* [word for word in words if word not in stop_words]
FilteredWords(words) == SelectSeq(words, LAMBDA word : word \notin stop_words)

\* Counter(filtered_words): the count of each word, the words keyed in the
\* order of their first occurrence.
Counter(words) ==
    LET first == SelectSeq(Positions(Len(words)), LAMBDA i :
                     \A j \in 1..(i - 1) : words[j] # words[i])
    IN  [k \in DOMAIN first |->
            [key |-> words[first[k]],
             count |-> Cardinality({j \in DOMAIN words : words[j] = words[first[k]]})]]

\* Counter.most_common(n) is sorted(items, key=count, reverse=True)[:n]: a
\* stable sort, so items of equal count keep their order.  The items of
\* count c, in their order, for c from the highest count down to 1.
RECURSIVE ByCountFrom(_, _)
ByCountFrom(items, c) ==
    IF c = 0 THEN <<>>
    ELSE SelectSeq(items, LAMBDA item : item.count = c) \o ByCountFrom(items, c - 1)

\* A variant of SortByCount that puts the items of one count in the reverse
\* of their order.
SortByCount_TiesReversed(items) ==
    LET counts == {items[i].count : i \in DOMAIN items}
        reversed == [i \in DOMAIN items |-> items[Len(items) + 1 - i]]
    IN  IF counts = {} THEN <<>>
        ELSE ByCountFrom(reversed, CHOOSE c \in counts : \A d \in counts : d <= c)

SortByCount(items) ==
    LET counts == {items[i].count : i \in DOMAIN items}
    IN  IF counts = {} THEN <<>>
        ELSE ByCountFrom(items, CHOOSE c \in counts : \A d \in counts : d <= c)

\* A variant of MostCommon that does not cut the list.
MostCommon_All(counts, n) == SortByCount(counts)

MostCommon(counts, n) ==
    LET s == SortByCount(counts)
    IN  SubSeq(s, 1, IF n < Len(s) THEN n ELSE Len(s))

ProcessTextForWordcloud(texts) ==
    LET all_text == lower(Join(texts))
        words == FindAll(all_text)
        word_counts == Counter(FilteredWords(words))
        top == MostCommon(word_counts, TopN)
    IN  [i \in DOMAIN top |-> [text |-> top[i].key, weight |-> top[i].count]]

(***************************************************************************)
(* get_survey_analytics_data: the entry of one question.                   *)
(***************************************************************************)
EmptyDict == <<>>

IsSpace(c) == c = " "

\* str.strip()
RECURSIVE lstrip(_)
lstrip(s) == IF Len(s) > 0 /\ IsSpace(s[1]) THEN lstrip(Tail(s)) ELSE s

RECURSIVE rstrip(_)
rstrip(s) ==
    IF Len(s) > 0 /\ IsSpace(s[Len(s)]) THEN rstrip(SubSeq(s, 1, Len(s) - 1)) ELSE s

strip(s) == rstrip(lstrip(s))

\* Answer.objects.filter(response__survey=survey, question=question)
AnswersOf(survey, question) ==
    SelectSeq(answers, LAMBDA a :
        /\ a.question = question.id
        /\ \E i \in DOMAIN responses :
              responses[i].id = a.response /\ responses[i].survey = survey)

\* The question_data dict as the loop body creates it.
NewQuestionData(question) ==
    [question |-> question,
     type |-> question.question_type,
     responses |-> <<>>,
     stats |-> EmptyDict,
     chart_data |-> EmptyDict,
     word_cloud_data |-> <<>>]

\* choice_counts (scale_counts) of the answers, in query order.
ChoiceCounts(ans) == CountChoices([i \in DOMAIN ans |-> ans[i].answer_choice])

\* A variant of TextResponses that tests answer_text only, not its strip().
TextResponses_BlankKept(ans) ==
    LET kept == SelectSeq(ans, LAMBDA a : Len(a.answer_text) > 0)
    IN  [i \in DOMAIN kept |-> strip(kept[i].answer_text)]

\* [answer.answer_text.strip() for answer in answers
\*      if answer.answer_text and answer.answer_text.strip()]
TextResponses(ans) ==
    LET kept == SelectSeq(ans, LAMBDA a :
                    Len(a.answer_text) > 0 /\ Len(strip(a.answer_text)) > 0)
    IN  [i \in DOMAIN kept |-> strip(kept[i].answer_text)]

\* The loop body raises: the sort of a likert_scale question's items.
QuestionRaises(question, ans) ==
    /\ question.question_type = "likert_scale"
    /\ SortRaises(ChoiceCounts(ans))

\* The loop body's question_data when it does not raise.
QuestionData(question, ans) ==
    LET total_answers == Len(ans)
        blank == NewQuestionData(question)
    IN  IF question.question_type = "multiple_choice"
        THEN LET choice_counts == ChoiceCounts(ans)
             IN  [blank EXCEPT !.stats = StatsOf(choice_counts, total_answers),
                               !.chart_data = ChartData(choice_counts, "pie")]
        ELSE IF question.question_type = "likert_scale"
        THEN LET sorted_scales == SortedScales(ChoiceCounts(ans))
             IN  [blank EXCEPT !.stats = StatsOf(sorted_scales, total_answers),
                               !.chart_data = ChartData(sorted_scales, "bar")]
        ELSE IF question.question_type \in {"short_answer", "long_answer"}
        THEN LET text_resp == TextResponses(ans)
             IN  [blank EXCEPT !.responses = text_resp,
                               !.word_cloud_data = ProcessTextForWordcloud(text_resp)]
        ELSE blank

(***************************************************************************)
(* survey.questions.all(): Question.Meta.ordering = ['order'].  Questions  *)
(* of equal order come in an order the database chooses.                   *)
(***************************************************************************)
TheSurvey == 1

SurveyQuestions(survey) == {q \in questions : q.survey = survey}

QuestionsAll(survey) ==
    LET qset == SurveyQuestions(survey)
        n == Cardinality(qset)
    IN  {qs \in [1..n -> qset] :
            /\ \A i, j \in 1..n : i # j => qs[i] # qs[j]
            /\ \A i \in 1..n : \A j \in 1..n : i < j => qs[i].order <= qs[j].order}

(***************************************************************************)
(* get_survey_analytics_data(survey), called by survey_analytics,          *)
(* teacher_dashboard and analytics_api.  It reads one snapshot of the      *)
(* rows.  It returns the list of the entries, or the exception of the      *)
(* first loop body that raises leaves it and nothing is returned.          *)
(***************************************************************************)
GetSurveyAnalyticsData ==
    /\ pc = "idle"
    /\ \E qs \in QuestionsAll(TheSurvey) :
          LET raises == \E i \in DOMAIN qs :
                            QuestionRaises(qs[i], AnswersOf(TheSurvey, qs[i]))
          IN  /\ pc' = IF raises THEN "raised" ELSE "returned"
              /\ analytics_data' =
                    IF raises THEN <<>>
                    ELSE [i \in DOMAIN qs |->
                             QuestionData(qs[i], AnswersOf(TheSurvey, qs[i]))]
    /\ UNCHANGED <<questions, responses, answers, text_responses, word_frequency, dashboard_vars, site_vars>>

\* The view that called it ends: the page is rendered, or the exception
\* becomes the error response.
Respond ==
    /\ pc \in {"returned", "raised"}
    /\ pc' = "idle"
    /\ analytics_data' = <<>>
    /\ word_frequency' = <<>>
    /\ request' = NoRequest
    /\ dashboard_analytics' = <<>>
    /\ UNCHANGED <<questions, responses, answers, text_responses, now, site_vars>>

(***************************************************************************)
(* The values a stored answer can hold.  SurveyResponseForm gives a        *)
(* multiple_choice question the choices (opt, opt) of its options and a    *)
(* likert_scale question the choices (i, i) of                             *)
(* range(likert_min, likert_max + 1); a ChoiceField accepts the string     *)
(* str(k) of a choice key, and the empty string when it is not required.   *)
(***************************************************************************)
RECURSIVE DigitsOf(_)
DigitsOf(n) ==
    IF n < 10 THEN <<DigitChars[n + 1]>>
    ELSE DigitsOf(n \div 10) \o <<DigitChars[(n % 10) + 1]>>

\* str(i) of an int
str(i) == IF i < 0 THEN <<"-">> \o DigitsOf(-i) ELSE DigitsOf(i)

FormChoices(question) ==
    IF question.question_type = "multiple_choice" THEN Range(question.options)
    ELSE {str(i) : i \in question.likert_min..question.likert_max}

(***************************************************************************)
(* Sample rows.                                                            *)
(***************************************************************************)
Yes == <<"Y", "e", "s">>
No == <<"N", "o">>
Maybe == <<"M", "a", "y", "b", "e">>
NotApplicable == <<"N", "/", "A">>

ChoiceQuestion ==
    [id |-> 1, survey |-> TheSurvey, question_type |-> "multiple_choice",
     is_required |-> TRUE, order |-> 0,
     options |-> <<Yes, No, Maybe, <<"A">>, <<"B">>, <<"C">> >>,
     likert_min |-> 1, likert_max |-> 5]

ScaleQuestion ==
    [id |-> 1, survey |-> TheSurvey, question_type |-> "likert_scale",
     is_required |-> FALSE, order |-> 0, options |-> <<>>,
     likert_min |-> -2, likert_max |-> 10]

\* The scale values of ScaleQuestion that the model draws answers from.
SampleScale == {-2, -1, 2, 10}

\* The answer_choice values drawn for a question: what the form stores,
\* and for a likert_scale question also the blank of a skipped question
\* and a choice stored while the question was of another type
\* (question_bulk_operations' change_type keeps the answers).
StoredChoices(question) ==
    IF question.question_type = "multiple_choice" THEN FormChoices(question)
    ELSE (FormChoices(question) \cap {str(i) : i \in SampleScale})
            \cup {<<>>, NotApplicable}

\* One more response to the survey, holding one Answer to the question.
AddAnswer(question, choice) ==
    LET id == Len(responses) + 1
    IN  /\ responses' = Append(responses,
                               [id |-> id, survey |-> TheSurvey, student |-> id,
                                submitted_at |-> now])
        /\ answers' = Append(answers,
                             [response |-> id, question |-> question.id,
                              answer_text |-> <<>>, answer_choice |-> choice])

\* SpecQuestion: any sequence of stored answers to one question.
InputAnswer ==
    /\ pc = "idle"
    /\ Len(answers) < MaxAnswers
    /\ \E question \in questions : \E choice \in StoredChoices(question) :
          AddAnswer(question, choice)
    /\ UNCHANGED <<questions, pc, analytics_data, text_responses, word_frequency, dashboard_vars, site_vars>>

\* SpecDistribution: any distribution of the answers over the options, each
\* distribution drawn once, its answers grouped in the order of the options.
InputTally ==
    /\ pc = "idle"
    /\ Len(answers) < MaxTally
    /\ \E question \in questions : \E k \in DOMAIN question.options :
          /\ Len(answers) > 0 =>
                \E j \in 1..k : question.options[j] = answers[Len(answers)].answer_choice
          /\ AddAnswer(question, question.options[k])
    /\ UNCHANGED <<questions, pc, analytics_data, text_responses, word_frequency, dashboard_vars, site_vars>>

\* The rows the site starts with.  UserProfile rows: users 1 and 2 are
\* students of section A, user 3 a student of section B, users 4 and 5
\* teachers.
InitialProfiles ==
    [user \in 1..5 |->
        IF user <= 2 THEN [role |-> "student", section |-> "A"]
        ELSE IF user = 3 THEN [role |-> "student", section |-> "B"]
        ELSE [role |-> "teacher", section |-> "A"]]

\* Section.objects.all(), in the order of the database.  Section C has no
\* profile.
InitialSections == <<[id |-> 1, code |-> "A"], [id |-> 2, code |-> "B"],
                     [id |-> 3, code |-> "C"]>>

\* The due_date of the initial surveys: the last minute of 2024.  The
\* forms that write a survey make due_date required.
EndOf2024 == [date |-> toordinal(2024, 12, 31), time |-> 23 * 60 + 59]

\* Survey.objects.all(): Survey.Meta.ordering = ['-created_at'], the later
\* row has the higher id.
InitialSurveys ==
    <<[id |-> 3, created_by |-> 5, sections |-> {"B"},
       is_active |-> TRUE, due_date |-> EndOf2024],
      [id |-> 2, created_by |-> 4, sections |-> {"A", "C"},
       is_active |-> TRUE, due_date |-> EndOf2024],
      [id |-> 1, created_by |-> 4, sections |-> {"A"},
       is_active |-> TRUE, due_date |-> EndOf2024]>>

\* The workers that serve take_survey, and a worker that serves none.
Workers == {1, 2}

IdleWorker ==
    [at |-> "idle", user |-> 0, survey |-> 0, cleaned_data |-> <<>>, response |-> 0]

InitStore ==
    /\ responses = <<>>
    /\ answers = <<>>
    /\ pc = "idle"
    /\ analytics_data = <<>>
    /\ text_responses = <<>>
    /\ word_frequency = <<>>
    /\ now = StartTime
    /\ request = NoRequest
    /\ dashboard_analytics = <<>>
    /\ UserProfiles = InitialProfiles
    /\ Surveys = InitialSurveys
    /\ Sections = InitialSections
    /\ workers = [w \in Workers |-> IdleWorker]

InitQuestion ==
    /\ questions \in {{ChoiceQuestion}, {ScaleQuestion}}
    /\ InitStore

NextQuestion == InputAnswer \/ GetSurveyAnalyticsData \/ Respond

SpecQuestion == InitQuestion /\ [][NextQuestion]_vars

InitDistribution ==
    /\ questions = {ChoiceQuestion}
    /\ InitStore

NextDistribution == InputTally \/ GetSurveyAnalyticsData \/ Respond

SpecDistribution == InitDistribution /\ [][NextDistribution]_vars

(***************************************************************************)
(* SpecText: process_text_for_wordcloud applied to drawn text responses.   *)
(***************************************************************************)
Letters4 == <<"a", "b", "c", "d">>

\* The i-th of 64 distinct three-letter words, none of them a stop word.
Word(i) ==
    <<Letters4[((i \div 16) % 4) + 1], Letters4[((i \div 4) % 4) + 1],
      Letters4[(i % 4) + 1]>>

\* Word(0) Word(1) ... Word(n - 1), one space between two words.
ManyWords(n) ==
    [k \in 1..(4 * n - 1) |->
        IF k % 4 = 0 THEN " " ELSE Word((k - 1) \div 4)[((k - 1) % 4) + 1]]

SampleTexts == {
    <<"t", "h", "e", " ", "t", "h", "e", " ", "t", "h", "e", " ", "c", "a", "t", " ", "c", "a", "t", " ", "d", "o", "g">>,
    <<"T", "h", "e", " ", "C", "A", "T", " ", "s", "a", "t">>,
    <<"a", "b", "c", "1", "2", "3", " ", "d", "o", "n", "'", "t", " ", "w", "e", "l", "l", "-", "k", "n", "o", "w", "n">>,
    <<"g", "o", " ", "t", "o", " ", "i", "t">>,
    <<"d", "o", "g">>,
    Word(TopN),
    ManyWords(TopN + 1)
}

InputText ==
    /\ pc = "idle"
    /\ Len(text_responses) < MaxResponses
    /\ \E text \in SampleTexts :
          text_responses' = Append(text_responses, text)
    /\ UNCHANGED <<questions, responses, answers, pc, analytics_data, word_frequency, dashboard_vars, site_vars>>

CallProcessText ==
    /\ pc = "idle"
    /\ word_frequency' = ProcessTextForWordcloud(text_responses)
    /\ pc' = "returned"
    /\ UNCHANGED <<questions, responses, answers, analytics_data, text_responses, dashboard_vars, site_vars>>

InitText ==
    /\ questions = {}
    /\ InitStore

NextText == InputText \/ CallProcessText \/ Respond

SpecText == InitText /\ [][NextText]_vars

\* The texts a student types into a short_answer or long_answer field.
SampleTyped == {<<"c", "a", "t">>, <<" ", "T", "h", "e", " ", "d", "o", "g", " ">>, <<" ", " ">>}

(***************************************************************************)
(* SpecTextAnswers: get_survey_analytics_data of one short_answer or       *)
(* long_answer question over any sequence of stored answer_text values.    *)
(* answer_text is a TextField: a stored row can hold any text, also one    *)
(* that the form of take_survey would have stripped.                       *)
(***************************************************************************)
ShortQuestion ==
    [id |-> 1, survey |-> TheSurvey, question_type |-> "short_answer",
     is_required |-> FALSE, order |-> 0, options |-> <<>>,
     likert_min |-> 1, likert_max |-> 5]

LongQuestion ==
    [id |-> 1, survey |-> TheSurvey, question_type |-> "long_answer",
     is_required |-> FALSE, order |-> 0, options |-> <<>>,
     likert_min |-> 1, likert_max |-> 5]

\* The answer_text values drawn: the typed samples as they are, and the
\* empty text of a skipped question.
StoredTexts == SampleTyped \cup {<<>>}

\* One more response to the survey, holding one Answer with its text.
AddTextAnswer(question, text) ==
    LET id == Len(responses) + 1
    IN  /\ responses' = Append(responses,
                               [id |-> id, survey |-> TheSurvey, student |-> id,
                                submitted_at |-> now])
        /\ answers' = Append(answers,
                             [response |-> id, question |-> question.id,
                              answer_text |-> text, answer_choice |-> <<>>])

InputTextAnswer ==
    /\ pc = "idle"
    /\ Len(answers) < MaxTextAnswers
    /\ \E question \in questions : \E text \in StoredTexts :
          AddTextAnswer(question, text)
    /\ UNCHANGED <<questions, pc, analytics_data, text_responses, word_frequency, dashboard_vars, site_vars>>

InitTextAnswers ==
    /\ questions \in {{ShortQuestion}, {LongQuestion}}
    /\ InitStore

NextTextAnswers == InputTextAnswer \/ GetSurveyAnalyticsData \/ Respond

SpecTextAnswers == InitTextAnswers /\ [][NextTextAnswers]_vars

(***************************************************************************)
(* Spec: one survey, its students, take_survey and the analytics of the    *)
(* survey.  The requests are served one at a time.                         *)
(***************************************************************************)
\* survey.sections.all()
SurveySections == {"A"}

\* Survey.is_open: is_active, and no due_date that has passed.
TheSurveyRow == [is_active |-> TRUE, due_date_passed |-> FALSE]

is_open(survey_row) ==
    IF ~survey_row.is_active THEN FALSE
    ELSE IF survey_row.due_date_passed THEN FALSE
    ELSE TRUE

\* datetime > datetime
After(a, b) == a.date > b.date \/ (a.date = b.date /\ a.time > b.time)

\* survey.is_open, read at the instant of the clock.
OpenNow(survey) ==
    is_open([is_active |-> survey.is_active,
             due_date_passed |-> After(now, survey.due_date)])

\* Sample surveys: no question; a likert_scale and a multiple_choice
\* question whose display order is not the order of their ids; a
\* short_answer and a long_answer question of equal order.
SampleSurveys == {
    {},
    {[id |-> 1, survey |-> TheSurvey, question_type |-> "likert_scale",
      is_required |-> FALSE, order |-> 2, options |-> <<>>,
      likert_min |-> 1, likert_max |-> 2],
     [id |-> 2, survey |-> TheSurvey, question_type |-> "multiple_choice",
      is_required |-> TRUE, order |-> 1, options |-> <<Yes, No>>,
      likert_min |-> 1, likert_max |-> 5]},
    {[id |-> 1, survey |-> TheSurvey, question_type |-> "short_answer",
      is_required |-> TRUE, order |-> 1, options |-> <<>>,
      likert_min |-> 1, likert_max |-> 5],
     [id |-> 2, survey |-> TheSurvey, question_type |-> "long_answer",
      is_required |-> FALSE, order |-> 1, options |-> <<>>,
      likert_min |-> 1, likert_max |-> 5]}
}

\* The cleaned_data values a valid form can hold for a question: a choice
\* of a ChoiceField, the stripped text of a CharField, and the empty string
\* only when the field is not required.
CleanedValues(question) ==
    LET filled == IF question.question_type \in {"multiple_choice", "likert_scale"}
                  THEN FormChoices(question)
                  ELSE {strip(typed) : typed \in SampleTyped} \ {<<>>}
    IN  IF question.is_required THEN filled ELSE filled \cup {<<>>}

\* A variant of NewAnswer that binds every answer to question 1.
NewAnswer_FirstQuestion(response_id, question, answer_value) ==
    [response |-> response_id,
     question |-> 1,
     answer_text |-> IF question.question_type \in {"short_answer", "long_answer"}
                     THEN answer_value ELSE <<>>,
     answer_choice |-> IF question.question_type \in {"multiple_choice", "likert_scale"}
                       THEN answer_value ELSE <<>>]

\* Answer.objects.create(response, question), the value put into
\* answer_choice or answer_text by the question's type, answer.save().
NewAnswer(response_id, question, answer_value) ==
    [response |-> response_id,
     question |-> question.id,
     answer_text |-> IF question.question_type \in {"short_answer", "long_answer"}
                     THEN answer_value ELSE <<>>,
     answer_choice |-> IF question.question_type \in {"multiple_choice", "likert_scale"}
                       THEN answer_value ELSE <<>>]

\* take_survey, a POST of a valid form by user.
TakeSurvey(user) ==
    /\ pc = "idle"
    /\ UserProfiles[user].role = "student"
    /\ UserProfiles[user].section \in SurveySections
    /\ is_open(TheSurveyRow)
    /\ ~\E i \in DOMAIN responses :
            responses[i].survey = TheSurvey /\ responses[i].student = user
    /\ \E qs \in QuestionsAll(TheSurvey) :
       \E cleaned_data \in [{q.id : q \in SurveyQuestions(TheSurvey)} ->
                               UNION {CleanedValues(q) : q \in SurveyQuestions(TheSurvey)}] :
          LET id == Len(responses) + 1
          IN  /\ \A q \in SurveyQuestions(TheSurvey) :
                    cleaned_data[q.id] \in CleanedValues(q)
              /\ responses' = Append(responses,
                                     [id |-> id, survey |-> TheSurvey, student |-> user,
                                      submitted_at |-> now])
              /\ answers' = answers \o
                    [i \in DOMAIN qs |-> NewAnswer(id, qs[i], cleaned_data[qs[i].id])]
    /\ UNCHANGED <<questions, pc, analytics_data, text_responses, word_frequency, dashboard_vars, site_vars>>

Init ==
    /\ questions \in SampleSurveys
    /\ InitStore

Next ==
    \/ \E user \in DOMAIN UserProfiles : TakeSurvey(user)
    \/ GetSurveyAnalyticsData
    \/ Respond

Spec == Init /\ [][Next]_vars

(***************************************************************************)
(* The teacher dashboard: the rows it reads.  A section row is referred to *)
(* by its code in UserProfiles and in a survey's sections.                 *)
(***************************************************************************)
SurveyRow(survey_id) == CHOOSE survey \in Range(Surveys) : survey.id = survey_id

\* student__userprofile__section of a response
SectionOfStudent(response) == UserProfiles[response.student].section

\* strptime and strftime with '%Y-%m-%d'.
Dash == "-"

\* The fields of s between its '-' characters.
Fields(s) ==
    LET cuts == <<0>> \o SelectSeq(Positions(Len(s)), LAMBDA i : s[i] = Dash)
                     \o <<Len(s) + 1>>
    IN  [k \in 1..(Len(cuts) - 1) |-> SubSeq(s, cuts[k] + 1, cuts[k + 1] - 1)]

\* A variant of StrptimeRaises that takes every day from 1 to 31 in every
\* month.
StrptimeRaises_AnyDayOfMonth(s) ==
    LET f == Fields(s)
    IN  ~ /\ Len(f) = 3
          /\ isdigit(f[1]) /\ Len(f[1]) = 4 /\ int(f[1]) >= 1
          /\ isdigit(f[2]) /\ Len(f[2]) <= 2 /\ int(f[2]) \in 1..12
          /\ isdigit(f[3]) /\ Len(f[3]) <= 2 /\ int(f[3]) \in 1..31

\* datetime.strptime(s, '%Y-%m-%d') raises ValueError: %Y is four digits,
\* %m one or two digits of 1..12, %d one or two digits of 1..31, and the
\* day has to exist in the month; year 0 is out of range.
StrptimeRaises(s) ==
    LET f == Fields(s)
    IN  ~ /\ Len(f) = 3
          /\ isdigit(f[1]) /\ Len(f[1]) = 4 /\ int(f[1]) >= 1
          /\ isdigit(f[2]) /\ Len(f[2]) <= 2 /\ int(f[2]) \in 1..12
          /\ isdigit(f[3]) /\ Len(f[3]) <= 2
          /\ int(f[3]) \in 1..DaysInMonth(int(f[1]), int(f[2]))

\* datetime.strptime(s, '%Y-%m-%d').date(), when it does not raise.
strptime(s) ==
    LET f == Fields(s)
    IN  toordinal(int(f[1]), int(f[2]), int(f[3]))

\* The decimal digits of n, padded with zeros to the width.
Padded(n, width) ==
    LET digits == DigitsOf(n)
    IN  [i \in 1..(width - Len(digits)) |-> "0"] \o digits

\* date.strftime('%Y-%m-%d')
strftime(date) ==
    Padded(YearOf(date), 4) \o <<Dash>> \o Padded(MonthOf(date), 2)
        \o <<Dash>> \o Padded(DayOf(date), 2)

\* The truth value of request.GET.get(key): neither None nor ''.
Truthy(value) == value # None /\ value # <<>>

All == <<"a", "l", "l">>

\* A variant of Selected that takes 'all' for an id.
Selected_EvenAll(id) == Truthy(id)

\* `survey_id and survey_id != 'all'`, the same for section_id.
Selected(id) == Truthy(id) /\ id # All

(***************************************************************************)
(* dashboard_analytics_api: responses_query.                               *)
(***************************************************************************)
\* A variant of OwnedResponses that takes the responses to every survey.
OwnedResponses_AnyOwner(user) == responses

\* SurveyResponse.objects.filter(survey__created_by=user)
OwnedResponses(user) ==
    SelectSeq(responses, LAMBDA r : SurveyRow(r.survey).created_by = user)

\* A variant of FilterDateFrom that leaves the day of the bound out.
FilterDateFrom_DayExcluded(query, date_from_obj) ==
    SelectSeq(query, LAMBDA r : DateOf(r.submitted_at) > date_from_obj)

\* A variant of FilterDateTo that leaves the day of the bound out.
FilterDateTo_DayExcluded(query, date_to_obj) ==
    SelectSeq(query, LAMBDA r : DateOf(r.submitted_at) < date_to_obj)

\* filter(submitted_at__date__gte=date_from_obj)
FilterDateFrom(query, date_from_obj) ==
    SelectSeq(query, LAMBDA r : DateOf(r.submitted_at) >= date_from_obj)

\* filter(submitted_at__date__lte=date_to_obj)
FilterDateTo(query, date_to_obj) ==
    SelectSeq(query, LAMBDA r : DateOf(r.submitted_at) <= date_to_obj)

\* filter(survey_id=survey_id)
FilterSurvey(query, survey_id) ==
    SelectSeq(query, LAMBDA r : r.survey = int(survey_id))

\* filter(student__userprofile__section_id=section_id)
FilterSection(query, section_id) ==
    SelectSeq(query, LAMBDA r :
        \E i \in DOMAIN Sections :
            Sections[i].id = int(section_id) /\ Sections[i].code = SectionOfStudent(r))

\* The try block of the view raises ValueError: a filter on an id that is
\* no number, or one of the two strptime calls.
ApiRaises(GET) ==
    \/ Selected(GET.survey_id) /\ ~isdigit(GET.survey_id)
    \/ Selected(GET.section_id) /\ ~isdigit(GET.section_id)
    \/ Truthy(GET.date_from) /\ StrptimeRaises(GET.date_from)
    \/ Truthy(GET.date_to) /\ StrptimeRaises(GET.date_to)

ResponsesQuery(user, GET) ==
    LET base == OwnedResponses(user)
        by_survey == IF Selected(GET.survey_id)
                     THEN FilterSurvey(base, GET.survey_id) ELSE base
        by_section == IF Selected(GET.section_id)
                      THEN FilterSection(by_survey, GET.section_id) ELSE by_survey
        by_from == IF Truthy(GET.date_from)
                   THEN FilterDateFrom(by_section, strptime(GET.date_from))
                   ELSE by_section
    IN  IF Truthy(GET.date_to)
        THEN FilterDateTo(by_from, strptime(GET.date_to))
        ELSE by_from

(***************************************************************************)
(* The three series and has_data.                                          *)
(***************************************************************************)
\* A variant of StudentCount that counts the profiles of every role.
StudentCount_AnyRole(section) ==
    Cardinality({user \in DOMAIN UserProfiles :
                    UserProfiles[user].section = section.code})

\* UserProfile.objects.filter(section=section, role='student').count()
StudentCount(section) ==
    Cardinality({user \in DOMAIN UserProfiles :
                    /\ UserProfiles[user].section = section.code
                    /\ UserProfiles[user].role = "student"})

\* total_possible += ... over the sections
RECURSIVE TotalPossible(_)
TotalPossible(sections_filter) ==
    IF Len(sections_filter) = 0 THEN 0
    ELSE TotalPossible(SubSeq(sections_filter, 1, Len(sections_filter) - 1))
            + StudentCount(sections_filter[Len(sections_filter)])

\* round((total_responses / total_possible * 100) if total_possible > 0 else 0, 1)
ResponsePercentage(total_responses, total_possible) ==
    IF total_possible > 0 THEN RoundPercentage(total_responses, total_possible) ELSE 0

\* survey.sections.all()
SectionsOf(survey) == SelectSeq(Sections, LAMBDA section : section.code \in survey.sections)

PieEntry(survey, total_responses, sections_filter) ==
    LET total_possible == TotalPossible(sections_filter)
    IN  [survey_id |-> survey.id,
         responses |-> total_responses,
         possible |-> total_possible,
         percentage |-> ResponsePercentage(total_responses, total_possible)]

BarEntry(section, query) ==
    [section_id |-> section.id,
     section_code |-> section.code,
     response_count |->
         Len(SelectSeq(query, LAMBDA r : SectionOfStudent(r) = section.code))]

\* A variant of LineChart whose loop stops before end_date.
LineChart_EndExcluded(query, start_date, end_date) ==
    [i \in 1..(end_date - start_date) |->
        LET current_date == start_date + (i - 1)
        IN  [date |-> strftime(current_date),
             response_count |->
                 Len(SelectSeq(query, LAMBDA r : DateOf(r.submitted_at) = current_date))]]

\* A variant of LineChart that gives every day the count of the whole
\* query.
LineChart_CountOfAllDays(query, start_date, end_date) ==
    [i \in 1..(end_date - start_date + 1) |->
        [date |-> strftime(start_date + (i - 1)), response_count |-> Len(query)]]

\* The while loop from start_date to end_date.
LineChart(query, start_date, end_date) ==
    [i \in 1..(end_date - start_date + 1) |->
        LET current_date == start_date + (i - 1)
        IN  [date |-> strftime(current_date),
             response_count |->
                 Len(SelectSeq(query, LAMBDA r : DateOf(r.submitted_at) = current_date))]]

\* A variant of HasData whose chart flags tell that the series has entries.
HasData_EntriesExist(surveys, query, sections, pie_chart_data, bar_chart_data, line_chart_data) ==
    [surveys |-> Len(surveys) > 0,
     responses |-> Len(query) > 0,
     sections |-> Len(sections) > 0,
     pie_chart |-> Len(pie_chart_data) > 0,
     bar_chart |-> Len(bar_chart_data) > 0,
     line_chart |-> Len(line_chart_data) > 0]

HasData(surveys, query, sections, pie_chart_data, bar_chart_data, line_chart_data) ==
    [surveys |-> Len(surveys) > 0,
     responses |-> Len(query) > 0,
     sections |-> Len(sections) > 0,
     pie_chart |-> \E i \in DOMAIN pie_chart_data : pie_chart_data[i].responses > 0,
     bar_chart |-> \E i \in DOMAIN bar_chart_data : bar_chart_data[i].response_count > 0,
     line_chart |-> \E i \in DOMAIN line_chart_data : line_chart_data[i].response_count > 0]

\* get_dashboard_analytics_data(user)
GetDashboardAnalyticsData(user) ==
    LET surveys == SelectSeq(Surveys, LAMBDA survey : survey.created_by = user)
        pie_chart_data ==
            [i \in DOMAIN surveys |->
                PieEntry(surveys[i],
                         Len(SelectSeq(responses, LAMBDA r : r.survey = surveys[i].id)),
                         SectionsOf(surveys[i]))]
        bar_chart_data ==
            [i \in DOMAIN Sections |-> BarEntry(Sections[i], OwnedResponses(user))]
        end_date == DateOf(now)
        start_date == end_date - 30
        line_chart_data == LineChart(OwnedResponses(user), start_date, end_date)
    IN  [pie_chart_data |-> pie_chart_data,
         bar_chart_data |-> bar_chart_data,
         line_chart_data |-> line_chart_data,
         total_surveys |-> Len(surveys),
         total_sections |-> Len(Sections),
         has_data |-> HasData(surveys, OwnedResponses(user), Sections,
                              pie_chart_data, bar_chart_data, line_chart_data)]

\* Both bounds are given and one of the two strptime calls raises.
FilteredRaises(date_from, date_to) ==
    /\ Truthy(date_from) /\ Truthy(date_to)
    /\ StrptimeRaises(date_from) \/ StrptimeRaises(date_to)

\* get_filtered_dashboard_analytics(user, responses_query, survey_id,
\*                                  section_id, date_from, date_to)
GetFilteredDashboardAnalytics(user, responses_query, survey_id, section_id, date_from, date_to) ==
    LET owned == SelectSeq(Surveys, LAMBDA survey : survey.created_by = user)
        surveys == IF Selected(survey_id)
                   THEN SelectSeq(owned, LAMBDA survey : survey.id = int(survey_id))
                   ELSE owned
        SectionsFilter(survey) ==
            IF Selected(section_id)
            THEN SelectSeq(SectionsOf(survey),
                           LAMBDA section : section.id = int(section_id))
            ELSE SectionsOf(survey)
        pie_chart_data ==
            [i \in DOMAIN surveys |->
                PieEntry(surveys[i],
                         Len(SelectSeq(responses_query,
                                       LAMBDA r : r.survey = surveys[i].id)),
                         SectionsFilter(surveys[i]))]
        sections == IF Selected(section_id)
                    THEN SelectSeq(Sections, LAMBDA section : section.id = int(section_id))
                    ELSE Sections
        bar_chart_data ==
            [i \in DOMAIN sections |-> BarEntry(sections[i], responses_query)]
        given == Truthy(date_from) /\ Truthy(date_to)
        end_date == IF given THEN strptime(date_to) ELSE DateOf(now)
        start_date == IF given THEN strptime(date_from) ELSE end_date - 30
        line_chart_data == LineChart(responses_query, start_date, end_date)
    IN  [pie_chart_data |-> pie_chart_data,
         bar_chart_data |-> bar_chart_data,
         line_chart_data |-> line_chart_data,
         has_data |-> HasData(surveys, responses_query, sections,
                              pie_chart_data, bar_chart_data, line_chart_data),
         filters_applied |-> [survey_id |-> survey_id, section_id |-> section_id,
                              date_from |-> date_from, date_to |-> date_to]]

\* A JsonResponse: its status and its body.
JsonResponse(status, body) == [status |-> status, body |-> body]

\* The response of dashboard_analytics_api to a request.
ApiResponse(user, method, GET) ==
    IF UserProfiles[user].role # "teacher"
    THEN JsonResponse(403, [error |-> "Access denied"])
    ELSE IF method # "GET"
    THEN JsonResponse(405, [error |-> "Invalid request method"])
    ELSE IF ApiRaises(GET) \/ FilteredRaises(GET.date_from, GET.date_to)
    THEN JsonResponse(500, [error |-> "ValueError"])
    ELSE JsonResponse(200,
            [success |-> TRUE,
             data |-> GetFilteredDashboardAnalytics(
                          user, ResponsesQuery(user, GET), GET.survey_id,
                          GET.section_id, GET.date_from, GET.date_to)])

\* A variant of CompletionRate that gives a section without students the
\* rate 100.
CompletionRate_FullWhenEmpty(responses_from_section, students_in_section) ==
    IF students_in_section > 0
    THEN RoundPercentage(responses_from_section, students_in_section)
    ELSE 1000

\* The section_stats of survey_analytics.
CompletionRate(responses_from_section, students_in_section) ==
    IF students_in_section > 0
    THEN RoundPercentage(responses_from_section, students_in_section)
    ELSE 0

SectionStats(survey) ==
    LET sections == SectionsOf(survey)
    IN  [i \in DOMAIN sections |->
            LET students_in_section == StudentCount(sections[i])
                responses_from_section ==
                    Len(SelectSeq(responses, LAMBDA r :
                            /\ r.survey = survey.id
                            /\ SectionOfStudent(r) = sections[i].code))
            IN  [section |-> sections[i].code,
                 total_students |-> students_in_section,
                 responses_received |-> responses_from_section,
                 completion_rate |->
                     CompletionRate(responses_from_section, students_in_section)]]

(***************************************************************************)
(* SpecDashboard: students submit responses to the surveys while the clock *)
(* advances, and the dashboard views are requested.  The surveys have no   *)
(* question.  The requests are served one at a time.                       *)
(***************************************************************************)
\* The instants the clock takes: the last minute of 2023, the first minute
\* of 2024-01-01, the last minute of 2024-01-03, and 2024-01-31 08:00,
\* which is 31 days after the first instant and 30 days after the second.
Instants == <<StartTime,
              [date |-> toordinal(2024, 1, 1), time |-> 0],
              [date |-> toordinal(2024, 1, 3), time |-> 23 * 60 + 59],
              [date |-> toordinal(2024, 1, 31), time |-> 8 * 60]>>

Tick ==
    /\ pc = "idle"
    /\ \E i \in 1..(Len(Instants) - 1) : now = Instants[i] /\ now' = Instants[i + 1]
    /\ UNCHANGED <<questions, responses, answers, pc, analytics_data,
                   text_responses, word_frequency, request, dashboard_analytics, site_vars>>

\* take_survey of a survey without questions: the guards, and the
\* SurveyResponse row with submitted_at = now (auto_now_add).
SubmitResponse(user, survey) ==
    /\ pc = "idle"
    /\ Len(responses) < MaxSubmissions
    /\ UserProfiles[user].role = "student"
    /\ UserProfiles[user].section \in survey.sections
    /\ OpenNow(survey)
    /\ ~\E i \in DOMAIN responses :
            responses[i].survey = survey.id /\ responses[i].student = user
    /\ responses' = Append(responses,
                           [id |-> Len(responses) + 1, survey |-> survey.id,
                            student |-> user, submitted_at |-> now])
    /\ UNCHANGED <<questions, answers, pc, analytics_data, text_responses,
                   word_frequency, dashboard_vars, site_vars>>

\* Sample values of the parameters of the request.
Jan01 == <<"2", "0", "2", "4", "-", "0", "1", "-", "0", "1">>
Jan03 == <<"2", "0", "2", "4", "-", "0", "1", "-", "0", "3">>
Jan01Unpadded == <<"2", "0", "2", "4", "-", "1", "-", "1">>
Slashed == <<"0", "1", "/", "0", "3", "/", "2", "0", "2", "4">>
Feb30 == <<"2", "0", "2", "4", "-", "0", "2", "-", "3", "0">>

SampleIds == {
    <<None, None>>, <<All, All>>, <<<<"1">>, None>>, <<None, <<"1">> >>,
    <<<<"3">>, <<"3">> >>, <<<<"2">>, All>>
}

SampleDates == {
    <<None, None>>, <<Jan01, Jan03>>, <<Jan01Unpadded, None>>, <<None, Jan03>>,
    <<Slashed, None>>, <<Jan01, Feb30>>, <<Jan03, Jan01>>, <<None, Slashed>>
}

\* Every sample of the ids with no date and with the window of three days,
\* and every sample of the dates with no id.
SampleGETs ==
    {[survey_id |-> ids[1], section_id |-> ids[2],
      date_from |-> dates[1], date_to |-> dates[2]] :
        ids \in SampleIds, dates \in {<<None, None>>, <<Jan01, Jan03>>}}
    \cup
    {[survey_id |-> None, section_id |-> None,
      date_from |-> dates[1], date_to |-> dates[2]] : dates \in SampleDates}

\* The requests to dashboard_analytics_api: a teacher's GET requests, a
\* student's request and a POST.
SampleRequests ==
    {[user |-> 4, method |-> "GET", GET |-> GET] : GET \in SampleGETs}
        \cup {[user |-> 1, method |-> "GET", GET |-> EmptyGET],
              [user |-> 4, method |-> "POST", GET |-> EmptyGET]}

\* A variant of DashboardAnalyticsApi that keeps, of the stored responses,
\* the ones of the filtered query.
DashboardAnalyticsApi_KeepsFilteredOnly(user, method, GET) ==
    /\ pc = "idle"
    /\ request' = [view |-> "dashboard_analytics_api", user |-> user,
                   method |-> method, GET |-> GET]
    /\ dashboard_analytics' = ApiResponse(user, method, GET)
    /\ pc' = "returned"
    /\ responses' = IF dashboard_analytics'.status = 200
                    THEN ResponsesQuery(user, GET) ELSE responses
    /\ UNCHANGED <<questions, answers, analytics_data,
                   text_responses, word_frequency, now, site_vars>>

\* dashboard_analytics_api(request)
DashboardAnalyticsApi(user, method, GET) ==
    /\ pc = "idle"
    /\ request' = [view |-> "dashboard_analytics_api", user |-> user,
                   method |-> method, GET |-> GET]
    /\ dashboard_analytics' = ApiResponse(user, method, GET)
    /\ pc' = "returned"
    /\ UNCHANGED <<questions, responses, answers, analytics_data,
                   text_responses, word_frequency, now, site_vars>>

\* teacher_dashboard(request): the dashboard_analytics of its context.
TeacherDashboard(user) ==
    /\ pc = "idle"
    /\ request' = [view |-> "teacher_dashboard", user |-> user,
                   method |-> "GET", GET |-> EmptyGET]
    /\ dashboard_analytics' =
          IF UserProfiles[user].role # "teacher" THEN [redirect |-> "home"]
          ELSE GetDashboardAnalyticsData(user)
    /\ pc' = "returned"
    /\ UNCHANGED <<questions, responses, answers, analytics_data,
                   text_responses, word_frequency, now, site_vars>>

\* survey_analytics(request, survey_id): the section_stats of its context.
SurveyAnalytics(user, survey_id) ==
    /\ pc = "idle"
    /\ request' = [view |-> "survey_analytics", user |-> user,
                   method |-> "GET", GET |-> EmptyGET]
    /\ dashboard_analytics' =
          IF UserProfiles[user].role # "teacher" THEN [redirect |-> "home"]
          ELSE IF SurveyRow(survey_id).created_by # user THEN [status |-> 404]
          ELSE [survey_id |-> survey_id,
                total_responses |->
                    Len(SelectSeq(responses, LAMBDA r : r.survey = survey_id)),
                section_stats |-> SectionStats(SurveyRow(survey_id))]
    /\ pc' = "returned"
    /\ UNCHANGED <<questions, responses, answers, analytics_data,
                   text_responses, word_frequency, now, site_vars>>

InitDashboard ==
    /\ questions = {}
    /\ InitStore

NextDashboard ==
    \/ Tick
    \/ \E user \in DOMAIN UserProfiles : \E i \in DOMAIN Surveys :
          SubmitResponse(user, Surveys[i])
    \/ \E r \in SampleRequests : DashboardAnalyticsApi(r.user, r.method, r.GET)
    \/ \E user \in {1, 4} : TeacherDashboard(user)
    \/ \E user \in {1, 4} : \E i \in DOMAIN Surveys : SurveyAnalytics(user, Surveys[i].id)
    \/ Respond

SpecDashboard == InitDashboard /\ [][NextDashboard]_vars

(***************************************************************************)
(* take_survey served by concurrent workers.  The database is in           *)
(* autocommit, Django's default: each query of the view is a step, and the *)
(* queries of two requests interleave.  A worker holds the request it is   *)
(* serving, from form.is_valid() to the redirect: where it is in the view, *)
(* and the cleaned_data of its form.                                       *)
(***************************************************************************)
\* SurveyResponse.objects.filter(survey=survey, student=request.user).exists()
ResponseExists(survey_id, user) ==
    \E i \in DOMAIN responses :
        responses[i].survey = survey_id /\ responses[i].student = user

\* A variant of TakeSurveyGuards without the test of survey.is_open.
TakeSurveyGuards_ClosedAccepted(user, survey_id) ==
    IF UserProfiles[user].role # "student" THEN "home"
    ELSE IF ~\E i \in DOMAIN Surveys : Surveys[i].id = survey_id THEN "404"
    ELSE IF UserProfiles[user].section \notin SurveyRow(survey_id).sections
    THEN "not assigned"
    ELSE IF ResponseExists(survey_id, user) THEN "completed"
    ELSE "form"

\* The guards of take_survey: where the request ends, or "form" when it
\* goes on to the form.
TakeSurveyGuards(user, survey_id) ==
    IF UserProfiles[user].role # "student" THEN "home"
    ELSE IF ~\E i \in DOMAIN Surveys : Surveys[i].id = survey_id THEN "404"
    ELSE IF UserProfiles[user].section \notin SurveyRow(survey_id).sections
    THEN "not assigned"
    ELSE IF ~OpenNow(SurveyRow(survey_id)) THEN "closed"
    ELSE IF ResponseExists(survey_id, user) THEN "completed"
    ELSE "form"

\* The cleaned_data of the valid forms of a survey: a value for the field
\* of each question.
ValidForms(survey_id) ==
    LET qset == SurveyQuestions(survey_id)
    IN  {cleaned_data \in [{q.id : q \in qset} -> UNION {CleanedValues(q) : q \in qset}] :
            \A q \in qset : cleaned_data[q.id] \in CleanedValues(q)}

\* The responses created and the requests that have passed the guards and
\* have not yet created theirs.
Submitting ==
    Len(responses) + Cardinality({w \in Workers : workers[w].at = "create"})

\* take_survey up to form.is_valid(): the guards, and the form of a POST.
\* A request that is redirected, or answered with the form, is over.  The
\* worker takes a request when its last one is over.
TakeSurveyRequest(w, user, survey_id, method, valid) ==
    /\ workers[w].at \in {"idle", "IntegrityError"}
    /\ Submitting < MaxSubmissions
    /\ IF TakeSurveyGuards(user, survey_id) = "form" /\ method = "POST" /\ valid
       THEN \E cleaned_data \in ValidForms(survey_id) :
               workers' = [workers EXCEPT ![w] =
                   [at |-> "create", user |-> user, survey |-> survey_id,
                    cleaned_data |-> cleaned_data, response |-> 0]]
       ELSE UNCHANGED workers
    /\ UNCHANGED <<questions, responses, answers, pc, analytics_data, text_responses,
                   word_frequency, dashboard_vars, UserProfiles, Surveys, Sections>>

\* A variant of UniqueTogether for a table without the constraint.
UniqueTogether_NoConstraint(survey_id, user) == TRUE

\* SurveyResponse.Meta.unique_together = ['survey', 'student']: the
\* database takes the row only when no row holds the pair.
UniqueTogether(survey_id, user) == ~ResponseExists(survey_id, user)

\* SurveyResponse.objects.create(survey=survey, student=request.user): the
\* row, or the IntegrityError of the constraint, which ends the request.
TakeSurveyCreate(w) ==
    /\ workers[w].at = "create"
    /\ IF UniqueTogether(workers[w].survey, workers[w].user)
       THEN LET id == Len(responses) + 1
            IN  /\ responses' = Append(responses,
                                       [id |-> id, survey |-> workers[w].survey,
                                        student |-> workers[w].user,
                                        submitted_at |-> now])
                /\ workers' = [workers EXCEPT ![w].at = "answers", ![w].response = id]
       ELSE /\ workers' = [workers EXCEPT ![w].at = "IntegrityError"]
            /\ UNCHANGED responses
    /\ UNCHANGED <<questions, answers, pc, analytics_data, text_responses,
                   word_frequency, dashboard_vars, UserProfiles, Surveys, Sections>>

\* The loop over survey.questions.all() that saves the answers, and the
\* redirect.
TakeSurveySaveAnswers(w) ==
    /\ workers[w].at = "answers"
    /\ \E qs \in QuestionsAll(workers[w].survey) :
          LET saved == SelectSeq(qs, LAMBDA q : q.id \in DOMAIN workers[w].cleaned_data)
          IN  answers' = answers \o
                  [i \in DOMAIN saved |->
                      NewAnswer(workers[w].response, saved[i],
                                workers[w].cleaned_data[saved[i].id])]
    /\ workers' = [workers EXCEPT ![w] = IdleWorker]
    /\ UNCHANGED <<questions, responses, pc, analytics_data, text_responses,
                   word_frequency, dashboard_vars, UserProfiles, Surveys, Sections>>

(***************************************************************************)
(* The views that change the assignments, the profiles and the sections.   *)
(***************************************************************************)
\* The survey of this id that the user has created, for get_object_or_404.
OwnedSurvey(user, survey_id) ==
    \E i \in DOMAIN Surveys :
        Surveys[i].id = survey_id /\ Surveys[i].created_by = user

\* assignment_management(request, survey_id): the POST of a valid
\* AssignmentForm sets the sections, the due_date and is_active of the
\* survey; every other request leaves the rows as they are.
AssignmentManagement(user, survey_id, method, form) ==
    /\ Surveys' =
          IF /\ UserProfiles[user].role = "teacher"
             /\ OwnedSurvey(user, survey_id)
             /\ method = "POST"
             /\ form.sections # {}
          THEN [i \in DOMAIN Surveys |->
                   IF Surveys[i].id = survey_id
                   THEN [Surveys[i] EXCEPT !.sections = form.sections,
                                           !.due_date = form.due_date,
                                           !.is_active = form.is_active]
                   ELSE Surveys[i]]
          ELSE Surveys
    /\ UNCHANGED <<questions, responses, answers, pc, analytics_data, text_responses,
                   word_frequency, dashboard_vars, UserProfiles, Sections, workers>>

\* The admin site's UserProfileInline: the section of a profile is set to
\* another of the sections.
AdminChangeSection(user, code) ==
    /\ \E i \in DOMAIN Sections : Sections[i].code = code
    /\ UserProfiles' = [UserProfiles EXCEPT ![user].section = code]
    /\ UNCHANGED <<questions, responses, answers, pc, analytics_data, text_responses,
                   word_frequency, dashboard_vars, Surveys, Sections, workers>>

\* UserProfile.objects.filter(section=section).count()
StudentsCount(section) ==
    Cardinality({user \in DOMAIN UserProfiles :
                    UserProfiles[user].section = section.code})

\* Survey.objects.filter(sections=section).count()
SurveysCount(section) ==
    Cardinality({i \in DOMAIN Surveys : section.code \in Surveys[i].sections})

\* A variant of DeleteRefused that looks at the profiles only.
DeleteRefused_ProfilesOnly(section) == StudentsCount(section) > 0

\* `students_count > 0 or surveys_count > 0`
DeleteRefused(section) == StudentsCount(section) > 0 \/ SurveysCount(section) > 0

\* delete_section(request, section_id): section.delete() unless the
\* request is refused.
DeleteSection(user, section_id) ==
    /\ Sections' =
          IF /\ UserProfiles[user].role = "teacher"
             /\ \E i \in DOMAIN Sections :
                   Sections[i].id = section_id /\ ~DeleteRefused(Sections[i])
          THEN SelectSeq(Sections, LAMBDA section : section.id # section_id)
          ELSE Sections
    /\ UNCHANGED <<questions, responses, answers, pc, analytics_data, text_responses,
                   word_frequency, dashboard_vars, UserProfiles, Surveys, workers>>

(***************************************************************************)
(* SpecSite: the students submit through two workers while the teacher     *)
(* changes the assignments, the admin moves a student, sections are        *)
(* deleted and the teacher dashboard is requested.  Survey 1 has one       *)
(* multiple_choice question of one option.                                 *)
(***************************************************************************)
YesQuestion ==
    [id |-> 1, survey |-> TheSurvey, question_type |-> "multiple_choice",
     is_required |-> TRUE, order |-> 1, options |-> <<Yes>>,
     likert_min |-> 1, likert_max |-> 5]

\* The requests to take_survey that each worker is given.
SampleTakes(w) ==
    IF w = 1
    THEN {[user |-> 1, survey |-> 1, method |-> "POST", valid |-> TRUE],
          [user |-> 2, survey |-> 1, method |-> "POST", valid |-> TRUE],
          [user |-> 3, survey |-> 1, method |-> "POST", valid |-> TRUE],
          [user |-> 4, survey |-> 1, method |-> "POST", valid |-> TRUE],
          [user |-> 1, survey |-> 1, method |-> "GET", valid |-> FALSE],
          [user |-> 1, survey |-> 1, method |-> "POST", valid |-> FALSE],
          [user |-> 1, survey |-> 9, method |-> "POST", valid |-> TRUE]}
    ELSE {[user |-> 1, survey |-> 1, method |-> "POST", valid |-> TRUE]}

\* A due_date that has passed: noon of 2023-12-31.
Noon == [date |-> toordinal(2023, 12, 31), time |-> 12 * 60]

\* The requests to assignment_management.
SampleAssignments ==
    {[user |-> 4, survey |-> 1, method |-> "POST",
      form |-> [sections |-> {"B"}, due_date |-> EndOf2024, is_active |-> TRUE]],
     [user |-> 4, survey |-> 1, method |-> "POST",
      form |-> [sections |-> {"A"}, due_date |-> Noon, is_active |-> TRUE]],
     [user |-> 4, survey |-> 1, method |-> "POST",
      form |-> [sections |-> {"A", "B"}, due_date |-> EndOf2024, is_active |-> FALSE]],
     [user |-> 4, survey |-> 2, method |-> "POST",
      form |-> [sections |-> {"A"}, due_date |-> EndOf2024, is_active |-> TRUE]],
     [user |-> 5, survey |-> 1, method |-> "POST",
      form |-> [sections |-> {"C"}, due_date |-> EndOf2024, is_active |-> TRUE]],
     [user |-> 4, survey |-> 1, method |-> "GET",
      form |-> [sections |-> {}, due_date |-> EndOf2024, is_active |-> TRUE]]}

InitSite ==
    /\ questions = {YesQuestion}
    /\ InitStore

NextSite ==
    \/ \E w \in Workers : \E r \in SampleTakes(w) :
          TakeSurveyRequest(w, r.user, r.survey, r.method, r.valid)
    \/ \E w \in Workers : TakeSurveyCreate(w)
    \/ \E w \in Workers : TakeSurveySaveAnswers(w)
    \/ \E r \in SampleAssignments : AssignmentManagement(r.user, r.survey, r.method, r.form)
    \/ \E code \in {"A", "B"} : AdminChangeSection(1, code)
    \/ \E user \in {1, 4} : \E section_id \in {1, 3} : DeleteSection(user, section_id)
    \/ TeacherDashboard(4)
    \/ Respond

SpecSite == InitSite /\ [][NextSite]_vars

(***************************************************************************)
(* The views that edit the questions of a survey.                          *)
(***************************************************************************)
\* Question.objects.filter(id__in=question_ids, survey=survey), in the
\* order of Question.Meta.ordering; rows of equal order come in an order
\* the database chooses.
SelectedQuestions(survey_id, question_ids) ==
    LET qset == {q \in SurveyQuestions(survey_id) : q.id \in question_ids}
        n == Cardinality(qset)
    IN  {qs \in [1..n -> qset] :
            /\ \A i, j \in 1..n : i # j => qs[i] # qs[j]
            /\ \A i \in 1..n : \A j \in 1..n : i < j => qs[i].order <= qs[j].order}

\* questions.update(question_type=new_type): the answers are not touched.
ChangeType(selected, new_type) ==
    /\ questions' = (questions \ Range(selected))
            \cup {[selected[i] EXCEPT !.question_type = new_type] : i \in DOMAIN selected}
    /\ UNCHANGED answers

\* question_bulk_operations(request, survey_id), the POST of a valid
\* QuestionBulkForm.  Deleting a question deletes its answers
\* (Answer.question is on_delete=CASCADE).
QuestionBulkOperations(user, survey_id, form) ==
    /\ pc = "idle"
    /\ IF UserProfiles[user].role # "teacher" \/ ~OwnedSurvey(user, survey_id)
       THEN UNCHANGED <<questions, answers>>
       ELSE \E selected \in SelectedQuestions(survey_id, form.question_ids) :
               IF form.action = "delete"
               THEN /\ questions' = questions \ Range(selected)
                    /\ answers' = SelectSeq(answers, LAMBDA a :
                                      \A i \in DOMAIN selected : a.question # selected[i].id)
               ELSE IF form.action = "reorder"
               THEN /\ questions' = (questions \ Range(selected))
                        \cup {IF i <= Len(form.new_order)
                              THEN [selected[i] EXCEPT !.order = form.new_order[i]]
                              ELSE selected[i] : i \in DOMAIN selected}
                    /\ UNCHANGED answers
               ELSE IF form.action = "toggle_required"
               THEN /\ questions' = (questions \ Range(selected))
                        \cup {[selected[i] EXCEPT !.is_required = ~selected[i].is_required] :
                                 i \in DOMAIN selected}
                    /\ UNCHANGED answers
               ELSE IF form.action = "change_type" /\ form.new_type # ""
               THEN ChangeType(selected, form.new_type)
               ELSE UNCHANGED <<questions, answers>>
    /\ UNCHANGED <<responses, pc, analytics_data, text_responses, word_frequency,
                   dashboard_vars, site_vars>>

\* edit_question(request, question_id), the POST of a valid QuestionForm:
\* form.save() writes the fields of the form into the row.
EditQuestion(user, question_id, form) ==
    /\ pc = "idle"
    /\ questions' =
          IF UserProfiles[user].role # "teacher" THEN questions
          ELSE {IF q.id = question_id /\ OwnedSurvey(user, q.survey)
                THEN [q EXCEPT !.question_type = form.question_type,
                               !.is_required = form.is_required,
                               !.order = form.order,
                               !.options = form.options,
                               !.likert_min = form.likert_min,
                               !.likert_max = form.likert_max]
                ELSE q : q \in questions}
    /\ UNCHANGED <<responses, answers, pc, analytics_data, text_responses,
                   word_frequency, dashboard_vars, site_vars>>

(***************************************************************************)
(* SpecEdit: the students submit a survey of two questions while the       *)
(* teacher edits its questions.                                            *)
(***************************************************************************)
EditedSurvey ==
    {[id |-> 1, survey |-> TheSurvey, question_type |-> "multiple_choice",
      is_required |-> TRUE, order |-> 1, options |-> <<Yes, No>>,
      likert_min |-> 1, likert_max |-> 2],
     [id |-> 2, survey |-> TheSurvey, question_type |-> "short_answer",
      is_required |-> TRUE, order |-> 2, options |-> <<Yes>>,
      likert_min |-> 1, likert_max |-> 2]}

\* The requests to question_bulk_operations.
SampleBulkForms ==
    {[user |-> 4, form |-> [action |-> "change_type", question_ids |-> {1},
                            new_order |-> <<>>, new_type |-> "short_answer"]],
     [user |-> 4, form |-> [action |-> "change_type", question_ids |-> {1, 2},
                            new_order |-> <<>>, new_type |-> "multiple_choice"]],
     [user |-> 4, form |-> [action |-> "change_type", question_ids |-> {1},
                            new_order |-> <<>>, new_type |-> ""]],
     [user |-> 4, form |-> [action |-> "toggle_required", question_ids |-> {2},
                            new_order |-> <<>>, new_type |-> ""]],
     [user |-> 4, form |-> [action |-> "reorder", question_ids |-> {1, 2},
                            new_order |-> <<2, 1>>, new_type |-> ""]],
     [user |-> 4, form |-> [action |-> "delete", question_ids |-> {2},
                            new_order |-> <<>>, new_type |-> ""]],
     [user |-> 1, form |-> [action |-> "delete", question_ids |-> {1, 2},
                            new_order |-> <<>>, new_type |-> ""]]}

\* The requests to edit_question.
SampleQuestionForms ==
    {[user |-> 4, question |-> 1,
      form |-> [question_type |-> "multiple_choice", is_required |-> TRUE, order |-> 1,
                options |-> <<Yes, No>>, likert_min |-> 1, likert_max |-> 2]],
     [user |-> 4, question |-> 2,
      form |-> [question_type |-> "long_answer", is_required |-> TRUE, order |-> 2,
                options |-> <<Yes>>, likert_min |-> 1, likert_max |-> 2]],
     [user |-> 5, question |-> 1,
      form |-> [question_type |-> "long_answer", is_required |-> FALSE, order |-> 1,
                options |-> <<>>, likert_min |-> 1, likert_max |-> 2]]}

InitEdit ==
    /\ questions = EditedSurvey
    /\ InitStore

NextEdit ==
    \/ \E user \in DOMAIN UserProfiles : TakeSurvey(user)
    \/ \E r \in SampleBulkForms : QuestionBulkOperations(r.user, TheSurvey, r.form)
    \/ \E r \in SampleQuestionForms : EditQuestion(r.user, r.question, r.form)

SpecEdit == InitEdit /\ [][NextEdit]_vars

(***************************************************************************)
(* SpecAnalytics: the students submit survey 1 and, between submissions,   *)
(* the three analytics computations are requested: the survey analytics,   *)
(* the teacher dashboard and the filtered dashboard.                       *)
(***************************************************************************)
\* The requests to dashboard_analytics_api: no filter, survey 1 of every
\* section, and survey 2, which nobody answers.
AnalyticsGETs ==
    {EmptyGET,
     [survey_id |-> <<"1">>, section_id |-> All, date_from |-> None, date_to |-> None],
     [survey_id |-> <<"2">>, section_id |-> All, date_from |-> None, date_to |-> None]}

InitAnalytics ==
    /\ questions \in SampleSurveys
    /\ InitStore

NextAnalytics ==
    \/ \E user \in DOMAIN UserProfiles : TakeSurvey(user)
    \/ GetSurveyAnalyticsData
    \/ TeacherDashboard(4)
    \/ \E GET \in AnalyticsGETs : DashboardAnalyticsApi(4, "GET", GET)
    \/ Respond

SpecAnalytics == InitAnalytics /\ [][NextAnalytics]_vars

(***************************************************************************)
(* The claims.  What follows states properties of the model above; the     *)
(* helpers here define the words of the claims, not the code.              *)
(***************************************************************************)
RECURSIVE SumOf(_)
SumOf(seq) == IF Len(seq) = 0 THEN 0 ELSE seq[1] + SumOf(Tail(seq))

Abs(n) == IF n < 0 THEN -n ELSE n

\* The distinct values of seq, each at the place of its first occurrence.
FirstSeen(seq) ==
    LET first == SelectSeq(Positions(Len(seq)), LAMBDA i :
                     \A j \in 1..(i - 1) : seq[j] # seq[i])
    IN  [k \in DOMAIN first |-> seq[first[k]]]

Occurrences(seq, value) == Cardinality({i \in DOMAIN seq : seq[i] = value})

\* The answer_choice values passed in for the question of an entry.
ChoicesOf(entry) ==
    LET ans == AnswersOf(TheSurvey, entry.question)
    IN  [i \in DOMAIN ans |-> ans[i].answer_choice]

StatsKeys(entry) == [k \in DOMAIN entry.stats |-> entry.stats[k].key]
StatsCounts(entry) == [k \in DOMAIN entry.stats |-> entry.stats[k].count]
StatsPercentages(entry) == [k \in DOMAIN entry.stats |-> entry.stats[k].percentage]

\* An integer literal: digits, with an optional minus sign in front.
IsIntLiteral(s) ==
    \/ isdigit(s)
    \/ Len(s) > 1 /\ s[1] = "-" /\ isdigit(Tail(s))

IntValue(s) == IF s[1] = "-" THEN -int(Tail(s)) ELSE int(s)

\* The survey is a single question of this type and the call has ended.
AggregatedOne(type) ==
    /\ pc # "idle"
    /\ Cardinality(questions) = 1
    /\ \A q \in questions : q.question_type = type

\* C1: for a multiple_choice question, the count values of stats sum to
\* the number of answers passed in, and so do the values of
\* chart_data.data.
C1_CountsSumToAnswers ==
    pc = "returned" =>
        \A i \in DOMAIN analytics_data :
            LET entry == analytics_data[i]
            IN  entry.type = "multiple_choice" =>
                    /\ SumOf(StatsCounts(entry)) = Len(ChoicesOf(entry))
                    /\ SumOf(entry.chart_data.data) = Len(ChoicesOf(entry))

C1_Witness ==
    /\ pc = "returned"
    /\ Len(analytics_data) = 1
    /\ analytics_data[1].type = "multiple_choice"
    /\ Len(ChoicesOf(analytics_data[1])) >= 3
    /\ Len(analytics_data[1].stats) = 2

\* C2 as claimed: for a multiple_choice question with answers, the
\* percentages of stats sum to 100 within 0.1 (1000 within 1, in tenths).
C2_SumWithinOneTenth ==
    pc = "returned" =>
        \A i \in DOMAIN analytics_data :
            LET entry == analytics_data[i]
            IN  (entry.type = "multiple_choice" /\ Len(ChoicesOf(entry)) > 0) =>
                    Abs(SumOf(StatsPercentages(entry)) - 1000) <= 1

\* C2 as amended: each percentage is count / total * 100 rounded to one
\* decimal, so the sum of the k percentages of a multiple_choice question
\* with answers is within 0.05 * k of 100; with no answers there is no
\* entry of stats, so no percentage other than 0.
C2_SumWithinHalfTenthPerChoice ==
    pc = "returned" =>
        \A i \in DOMAIN analytics_data :
            LET entry == analytics_data[i]
                total == Len(ChoicesOf(entry))
            IN  entry.type = "multiple_choice" =>
                    /\ \A k \in DOMAIN entry.stats :
                          2 * Abs(1000 * entry.stats[k].count
                                    - total * entry.stats[k].percentage) <= total
                    /\ total > 0 =>
                          2 * Abs(SumOf(StatsPercentages(entry)) - 1000)
                              <= Len(entry.stats)
                    /\ total = 0 => entry.stats = EmptyDict

C2_Witness ==
    /\ pc = "returned"
    /\ Len(analytics_data) = 1
    /\ analytics_data[1].type = "multiple_choice"
    /\ Len(analytics_data[1].stats) = 6
    /\ SumOf(StatsPercentages(analytics_data[1])) = 1002

\* C3: for a multiple_choice question, chart_data.labels lists the distinct
\* answer_choice values in first-seen order, stats has exactly those keys,
\* chart_data.data[i] is the count of stats for labels[i], which is the
\* number of answers of that choice; the answers Yes, No, Yes give
\* Yes -> (2, 66.7), No -> (1, 33.3) and the labels Yes, No.
C3_LabelsInFirstSeenOrder ==
    pc = "returned" =>
        \A i \in DOMAIN analytics_data :
            LET entry == analytics_data[i]
                choices == ChoicesOf(entry)
            IN  entry.type = "multiple_choice" =>
                    /\ entry.chart_data.labels = FirstSeen(choices)
                    /\ StatsKeys(entry) = entry.chart_data.labels
                    /\ entry.chart_data.data = StatsCounts(entry)
                    /\ \A k \in DOMAIN entry.stats :
                          entry.stats[k].count = Occurrences(choices, entry.stats[k].key)
                    /\ entry.chart_data.type = "pie"
                    /\ choices = <<Yes, No, Yes>> =>
                          /\ entry.stats =
                                <<[key |-> Yes, count |-> 2, percentage |-> 667],
                                  [key |-> No, count |-> 1, percentage |-> 333]>>
                          /\ entry.chart_data.labels = <<Yes, No>>

C3_Witness ==
    /\ pc = "returned"
    /\ Len(analytics_data) = 1
    /\ analytics_data[1].type = "multiple_choice"
    /\ ChoicesOf(analytics_data[1]) = <<Yes, No, Yes>>

\* Strictly ascending by the value of the integer literals.
AscendingNumeric(labels) ==
    \A i, j \in DOMAIN labels : i < j => IntValue(labels[i]) < IntValue(labels[j])

\* C4: for a likert_scale question whose answer_choice values are all
\* integer literals, negative ones included, the call returns and the keys
\* of stats and chart_data.labels are in strictly ascending numeric order,
\* whatever the order of the answers.
C4_IntegerChoicesAscending ==
    (/\ AggregatedOne("likert_scale")
     /\ \A i \in DOMAIN answers : IsIntLiteral(answers[i].answer_choice))
    => /\ pc = "returned"
       /\ \A i \in DOMAIN analytics_data :
             /\ AscendingNumeric(analytics_data[i].chart_data.labels)
             /\ AscendingNumeric(StatsKeys(analytics_data[i]))

\* C5: for a likert_scale question whose answers mix numeric and
\* non-numeric choices, the call raises nothing, the numeric choices come
\* first in ascending numeric order, the non-numeric ones follow in the
\* order of their first occurrence, and no answer is dropped.
C5_NumericFirstThenEncounterOrder ==
    (/\ AggregatedOne("likert_scale")
     /\ \E i \in DOMAIN answers : IsIntLiteral(answers[i].answer_choice)
     /\ \E i \in DOMAIN answers : ~IsIntLiteral(answers[i].answer_choice))
    => /\ pc = "returned"
       /\ \A i \in DOMAIN analytics_data :
             LET entry == analytics_data[i]
                 labels == entry.chart_data.labels
                 seen == FirstSeen(ChoicesOf(entry))
             IN  /\ labels =
                       SelectSeq(labels, IsIntLiteral)
                           \o SelectSeq(seen, LAMBDA s : ~IsIntLiteral(s))
                 /\ AscendingNumeric(SelectSeq(labels, IsIntLiteral))
                 /\ SumOf(entry.chart_data.data) = Len(ChoicesOf(entry))


\* The texts and the weights of the returned word frequency list.
Texts(freq) == [i \in DOMAIN freq |-> freq[i].text]
Weights(freq) == [i \in DOMAIN freq |-> freq[i].weight]

\* C6: process_text_for_wordcloud returns at most 50 entries, the weights
\* do not increase along the list, and every text consists of letters
\* only and is at least 3 long.
C6_AtMostFiftyDescendingLetters ==
    pc = "returned" =>
        /\ Len(word_frequency) <= 50
        /\ \A i, j \in DOMAIN word_frequency :
              i < j => word_frequency[i].weight >= word_frequency[j].weight
        /\ \A i \in DOMAIN word_frequency :
              /\ Len(word_frequency[i].text) >= 3
              /\ \A k \in DOMAIN word_frequency[i].text :
                    IsLetterChar(word_frequency[i].text[k])

C6_Witness ==
    /\ pc = "returned"
    /\ Len(word_frequency) = 50
    /\ word_frequency[1].weight > word_frequency[50].weight
    /\ Len(FirstSeen(FindAll(lower(Join(text_responses))))) > 50

TheTheTheCatCatDog == <<"t", "h", "e", " ", "t", "h", "e", " ", "t", "h", "e", " ", "c", "a", "t", " ", "c", "a", "t", " ", "d", "o", "g">>

\* C7: no returned text is a stop word, however often the word occurs; the
\* input "the the the cat cat dog" gives exactly (cat, 2), (dog, 1).
C7_NoStopWord ==
    pc = "returned" =>
        /\ \A i \in DOMAIN word_frequency : word_frequency[i].text \notin stop_words
        /\ text_responses = <<TheTheTheCatCatDog>> =>
              word_frequency = <<[text |-> <<"c", "a", "t">>, weight |-> 2],
                                 [text |-> <<"d", "o", "g">>, weight |-> 1]>>

C7_Witness ==
    /\ pc = "returned"
    /\ text_responses = <<TheTheTheCatCatDog>>
    /\ Len(word_frequency) = 2

\* The counted tokens of the input, in the order of the concatenated text.
CountedTokens == FilteredWords(FindAll(lower(Join(text_responses))))

FirstOccurrence(seq, value) ==
    CHOOSE i \in DOMAIN seq : seq[i] = value /\ \A j \in 1..(i - 1) : seq[j] # value

\* C8: two returned tokens of equal count are in the order of their first
\* occurrence in the input; when more than 50 distinct tokens exist, every
\* token kept has a higher count than every token dropped, or the same
\* count and an earlier first occurrence.
C8_TiesByFirstOccurrence ==
    pc = "returned" =>
        LET tokens == CountedTokens
            kept == Texts(word_frequency)
            dropped == Range(tokens) \ Range(kept)
        IN  /\ \A i \in DOMAIN word_frequency :
                  /\ word_frequency[i].text \in Range(tokens)
                  /\ word_frequency[i].weight = Occurrences(tokens, word_frequency[i].text)
            /\ \A i, j \in DOMAIN word_frequency :
                  (i < j /\ word_frequency[i].weight = word_frequency[j].weight) =>
                      FirstOccurrence(tokens, kept[i]) < FirstOccurrence(tokens, kept[j])
            /\ Len(word_frequency) =
                  (IF Cardinality(Range(tokens)) < 50
                   THEN Cardinality(Range(tokens)) ELSE 50)
            /\ \A i \in DOMAIN word_frequency : \A d \in dropped :
                  \/ word_frequency[i].weight > Occurrences(tokens, d)
                  \/ /\ word_frequency[i].weight = Occurrences(tokens, d)
                     /\ FirstOccurrence(tokens, kept[i]) < FirstOccurrence(tokens, d)

\* More than 50 distinct tokens, a token that occurs later than the last
\* kept one ranks first, and a dropped token ties with a kept one.
C8_Witness ==
    /\ pc = "returned"
    /\ Cardinality(Range(CountedTokens)) > 50
    /\ Len(word_frequency) = 50
    /\ word_frequency[1].weight > word_frequency[2].weight
    /\ FirstOccurrence(CountedTokens, word_frequency[1].text)
          > FirstOccurrence(CountedTokens, word_frequency[50].text)
    /\ \E d \in Range(CountedTokens) \ Range(Texts(word_frequency)) :
          Occurrences(CountedTokens, d) = word_frequency[50].weight

\* The end of the run of characters other than spaces that starts at i.
RECURSIVE TokenEnd(_, _)
TokenEnd(text, i) ==
    IF i < Len(text) /\ text[i + 1] # " " THEN TokenEnd(text, i + 1) ELSE i

\* The whitespace-delimited tokens of text.
SplitAtSpaces(text) ==
    LET starts == SelectSeq(Positions(Len(text)), LAMBDA i :
                      text[i] # " " /\ (i = 1 \/ text[i - 1] = " "))
    IN  [k \in DOMAIN starts |-> SubSeq(text, starts[k], TokenEnd(text, starts[k]))]

AllLetters(s) == \A i \in DOMAIN s : IsLetterChar(s[i])

\* C9: only whitespace-delimited tokens that are entirely
\* letters and at least 3 long are counted; a token with a digit or a
\* punctuation character contributes no entry, not even a fragment of it.
C9_OnlyWholeWhitespaceTokens ==
    pc = "returned" =>
        \A i \in DOMAIN word_frequency :
            \E tok \in Range(SplitAtSpaces(lower(Join(text_responses)))) :
                /\ tok = word_frequency[i].text
                /\ AllLetters(tok)
                /\ Len(tok) >= 3

\* C10: get_survey_analytics_data returns exactly one entry per question
\* of the survey, in ascending display order, each holding its question;
\* an empty list for a survey without questions; and entries with empty
\* stats, raising nothing, for a survey without responses.
C10_OneEntryPerQuestionInOrder ==
    pc # "idle" =>
        /\ pc = "returned"
        /\ Len(analytics_data) = Cardinality(SurveyQuestions(TheSurvey))
        /\ \A q \in SurveyQuestions(TheSurvey) :
              Cardinality({i \in DOMAIN analytics_data :
                              analytics_data[i].question = q}) = 1
        /\ \A i, j \in DOMAIN analytics_data :
              i < j => analytics_data[i].question.order
                          <= analytics_data[j].question.order
        /\ \A i \in DOMAIN analytics_data :
              analytics_data[i].type = analytics_data[i].question.question_type
        /\ SurveyQuestions(TheSurvey) = {} => analytics_data = <<>>
        /\ responses = <<>> =>
              \A i \in DOMAIN analytics_data : analytics_data[i].stats = EmptyDict

\* dashboard_analytics_api has answered the request with a payload.
ApiReturned ==
    /\ pc = "returned"
    /\ request.view = "dashboard_analytics_api"
    /\ dashboard_analytics.status = 200

\* The payload of the answer.
ApiData == dashboard_analytics.body.data

\* The dates of a line series.
Dates(line_chart_data) == [i \in DOMAIN line_chart_data |-> line_chart_data[i].date]

\* C11: when date_from and date_to are both supplied (and are dates), the
\* request is answered with a payload whose line_chart_data has one entry
\* for every day from date_from to date_to, in ascending order without gap
\* or duplicate, whatever the responses; 2024-01-01..2024-01-03 gives the
\* three entries 2024-01-01, 2024-01-02, 2024-01-03.
C11_OneEntryPerDayOfRange ==
    (/\ pc = "returned"
     /\ request.view = "dashboard_analytics_api"
     /\ request.method = "GET"
     /\ UserProfiles[request.user].role = "teacher"
     /\ Truthy(request.GET.date_from) /\ ~StrptimeRaises(request.GET.date_from)
     /\ Truthy(request.GET.date_to) /\ ~StrptimeRaises(request.GET.date_to))
    => /\ dashboard_analytics.status = 200
       /\ LET line == ApiData.line_chart_data
               first == strptime(request.GET.date_from)
               last == strptime(request.GET.date_to)
           IN  /\ Len(line) = (IF last >= first THEN last - first + 1 ELSE 0)
               /\ \A i \in DOMAIN line : line[i].date = strftime(first + i - 1)
               /\ \A i \in 1..(Len(line) - 1) : StrLess(line[i].date, line[i + 1].date)
               /\ (request.GET.date_from = Jan01 /\ request.GET.date_to = Jan03) =>
                      Dates(line) = <<Jan01, <<"2", "0", "2", "4", "-", "0", "1", "-", "0", "2">>, Jan03>>

\* The three days are listed although no response exists.
C11_Witness ==
    /\ ApiReturned
    /\ responses = <<>>
    /\ request.GET.date_from = Jan01 /\ request.GET.date_to = Jan03
    /\ Len(ApiData.line_chart_data) = 3

\* get_dashboard_analytics_data has returned to teacher_dashboard.
DashboardReturned ==
    /\ pc = "returned"
    /\ request.view = "teacher_dashboard"
    /\ UserProfiles[request.user].role = "teacher"

\* The request with survey_id = "all", section_id = "all",
\* date_from = today - 30 days and date_to = today.
DefaultGET ==
    [survey_id |-> All, section_id |-> All,
     date_from |-> strftime(DateOf(now) - 30), date_to |-> strftime(DateOf(now))]

\* The series and the flags of the two payloads agree.
SameSeries(unfiltered, filtered) ==
    /\ filtered.pie_chart_data = unfiltered.pie_chart_data
    /\ filtered.bar_chart_data = unfiltered.bar_chart_data
    /\ filtered.line_chart_data = unfiltered.line_chart_data
    /\ filtered.has_data = unfiltered.has_data

PayloadReturned == DashboardReturned \/ ApiReturned

Payload == IF DashboardReturned THEN dashboard_analytics ELSE ApiData

\* C13: in every dashboard payload, has_data.pie_chart is true iff some
\* entry of pie_chart_data has responses other than 0, has_data.bar_chart
\* iff some entry of bar_chart_data has a response_count other than 0, and
\* has_data.line_chart iff some entry of line_chart_data has a
\* response_count other than 0.
C13_ChartFlagsTellNonzeroEntries ==
    PayloadReturned =>
        LET pie == Payload.pie_chart_data
            bar == Payload.bar_chart_data
            line == Payload.line_chart_data
        IN  /\ Payload.has_data.pie_chart = (\E i \in DOMAIN pie : pie[i].responses # 0)
            /\ Payload.has_data.bar_chart = (\E i \in DOMAIN bar : bar[i].response_count # 0)
            /\ Payload.has_data.line_chart =
                  (\E i \in DOMAIN line : line[i].response_count # 0)

\* The three series have entries, all of them zero, and the flags are
\* false, although the teacher has a response.
C13_Witness ==
    /\ ApiReturned
    /\ Len(OwnedResponses(request.user)) > 0
    /\ Len(ApiData.pie_chart_data) > 0
    /\ Len(ApiData.bar_chart_data) > 0
    /\ Len(ApiData.line_chart_data) > 0
    /\ ~ApiData.has_data.pie_chart
    /\ ~ApiData.has_data.bar_chart
    /\ ~ApiData.has_data.line_chart

\* The filters of the payload: those of the request, none for
\* teacher_dashboard.
SurveyChosen(survey) ==
    Selected(request.GET.survey_id) => survey.id = int(request.GET.survey_id)

SectionChosen(code) ==
    Selected(request.GET.section_id) =>
        \E i \in DOMAIN Sections :
            Sections[i].code = code /\ Sections[i].id = int(request.GET.section_id)

\* The students a survey can get a response from under the filters.
PossibleStudents(survey) ==
    {user \in DOMAIN UserProfiles :
        /\ UserProfiles[user].role = "student"
        /\ UserProfiles[user].section \in survey.sections
        /\ SectionChosen(UserProfiles[user].section)}

\* C14: pie_chart_data has exactly one entry per survey of the teacher (of
\* these, only the selected one when survey_id is set); possible is the
\* number of student profiles in the survey's sections (only the selected
\* section when section_id is set), and percentage is responses / possible
\* * 100 rounded to one decimal, or 0 when possible = 0.
C14_PieEntryPerSurveyWithPossible ==
    PayloadReturned =>
        LET pie == Payload.pie_chart_data
            shown == {survey \in Range(Surveys) :
                         survey.created_by = request.user /\ SurveyChosen(survey)}
        IN  /\ Len(pie) = Cardinality(shown)
            /\ \A survey \in shown :
                  Cardinality({i \in DOMAIN pie : pie[i].survey_id = survey.id}) = 1
            /\ \A i \in DOMAIN pie :
                  /\ pie[i].possible = Cardinality(PossibleStudents(SurveyRow(pie[i].survey_id)))
                  /\ pie[i].possible = 0 => pie[i].percentage = 0
                  /\ pie[i].possible > 0 =>
                        2 * Abs(1000 * pie[i].responses - pie[i].possible * pie[i].percentage)
                            <= pie[i].possible

\* A section is selected; one of its two students has responded to one of
\* the two surveys of the teacher.
C14_Witness ==
    /\ ApiReturned
    /\ Selected(request.GET.section_id)
    /\ Len(ApiData.pie_chart_data) = 2
    /\ \E i \in DOMAIN ApiData.pie_chart_data :
          /\ ApiData.pie_chart_data[i].responses = 1
          /\ ApiData.pie_chart_data[i].possible = 2
          /\ ApiData.pie_chart_data[i].percentage = 500

\* The response is to a survey of the teacher and passes the survey,
\* section and date filters of the request.
InFilter(r) ==
    /\ SurveyRow(r.survey).created_by = request.user
    /\ SurveyChosen(SurveyRow(r.survey))
    /\ SectionChosen(SectionOfStudent(r))
    /\ Truthy(request.GET.date_from) =>
          strptime(request.GET.date_from) <= DateOf(r.submitted_at)
    /\ Truthy(request.GET.date_to) =>
          DateOf(r.submitted_at) <= strptime(request.GET.date_to)

\* The rows of the filtered response set.
FilteredSet == {i \in DOMAIN responses : InFilter(responses[i])}

\* C15: bar_chart_data has exactly one entry per section (only the
\* selected one when section_id is set), and its response_count is the
\* number of responses that are to a survey of the teacher, come from a
\* student whose profile is in the section, and pass the filters.
C15_BarEntryPerSectionWithCount ==
    PayloadReturned =>
        LET bar == Payload.bar_chart_data
            shown == {i \in DOMAIN Sections : SectionChosen(Sections[i].code)}
        IN  /\ Len(bar) = Cardinality(shown)
            /\ \A k \in shown :
                  Cardinality({i \in DOMAIN bar : bar[i].section_id = Sections[k].id}) = 1
            /\ \A i \in DOMAIN bar :
                  bar[i].response_count =
                      Cardinality({j \in FilteredSet :
                                      SectionOfStudent(responses[j]) = bar[i].section_code})

\* A section and a window of dates are selected; of the two responses from
\* the section one is in the window.
C15_Witness ==
    /\ ApiReturned
    /\ Selected(request.GET.section_id)
    /\ Truthy(request.GET.date_from)
    /\ Len(ApiData.bar_chart_data) = 1
    /\ ApiData.bar_chart_data[1].response_count = 1
    /\ Len(OwnedResponses(request.user)) = 2

\* C16: when date_from and date_to are not both supplied, line_chart_data
\* covers exactly the 31 days today - 30 .. today in ascending order, and
\* the response_count of a day is the number of responses of the filtered
\* response set submitted on that day.
C16_DefaultWindowOfThirtyOneDays ==
    (PayloadReturned /\ ~(Truthy(request.GET.date_from) /\ Truthy(request.GET.date_to)))
    => LET line == Payload.line_chart_data
           today == DateOf(now)
           filtered == FilteredSet
       IN  /\ Len(line) = 31
           /\ \A i \in DOMAIN line :
                 /\ line[i].date = strftime(today - 31 + i)
                 /\ line[i].response_count =
                       Cardinality({j \in filtered :
                                       DateOf(responses[j].submitted_at) = today - 31 + i})
           /\ \A i \in 1..(Len(line) - 1) : StrLess(line[i].date, line[i + 1].date)

\* Only date_from is supplied; the response of 30 days ago is counted on
\* the first of the 31 days, the response of the day before is in no count.
C16_Witness ==
    /\ ApiReturned
    /\ Truthy(request.GET.date_from) /\ ~Truthy(request.GET.date_to)
    /\ Len(OwnedResponses(request.user)) = 2
    /\ Len(ApiData.line_chart_data) = 31
    /\ ApiData.line_chart_data[1].response_count = 1
    /\ \A i \in 2..31 : ApiData.line_chart_data[i].response_count = 0

\* A teacher's GET request to dashboard_analytics_api has been answered.
TeacherGetAnswered ==
    /\ pc = "returned"
    /\ request.view = "dashboard_analytics_api"
    /\ request.method = "GET"
    /\ UserProfiles[request.user].role = "teacher"

\* The id is absent or equal to "all".
AbsentOrAll(id) == id = None \/ id = All

\* Neither date of the request is a string that does not parse.
DatesParse ==
    /\ Truthy(request.GET.date_from) => ~StrptimeRaises(request.GET.date_from)
    /\ Truthy(request.GET.date_to) => ~StrptimeRaises(request.GET.date_to)

\* C17: a survey_id or section_id that is absent or equal to "all"
\* restricts nothing: the payload is the one of the request without that
\* field, the pie series has every survey of the teacher when survey_id is
\* so, and the bar series has every section when section_id is so.
C17_AbsentOrAllRestrictsNothing ==
    (TeacherGetAnswered /\ DatesParse) =>
        /\ AbsentOrAll(request.GET.survey_id) =>
              /\ dashboard_analytics.status = 200
              /\ SameSeries(ApiData,
                            ApiResponse(request.user, "GET",
                                        [request.GET EXCEPT !.survey_id = None]).body.data)
              /\ {ApiData.pie_chart_data[i].survey_id : i \in DOMAIN ApiData.pie_chart_data}
                    = {survey.id : survey \in {v \in Range(Surveys) :
                                                   v.created_by = request.user}}
        /\ AbsentOrAll(request.GET.section_id) =>
              /\ dashboard_analytics.status = 200
              /\ SameSeries(ApiData,
                            ApiResponse(request.user, "GET",
                                        [request.GET EXCEPT !.section_id = None]).body.data)
              /\ {ApiData.bar_chart_data[i].section_id : i \in DOMAIN ApiData.bar_chart_data}
                    = {Sections[k].id : k \in DOMAIN Sections}
        /\ (AbsentOrAll(request.GET.survey_id) /\ AbsentOrAll(request.GET.section_id)) =>
              ApiData.has_data.responses =
                  (\E i \in DOMAIN responses :
                      /\ SurveyRow(responses[i].survey).created_by = request.user
                      /\ Truthy(request.GET.date_from) =>
                            strptime(request.GET.date_from) <= DateOf(responses[i].submitted_at)
                      /\ Truthy(request.GET.date_to) =>
                            DateOf(responses[i].submitted_at) <= strptime(request.GET.date_to))

\* Both ids are "all"; the two surveys of the teacher and the three
\* sections are listed, with the two responses of the teacher.
C17_Witness ==
    /\ ApiReturned
    /\ request.GET.survey_id = All /\ request.GET.section_id = All
    /\ Len(ApiData.pie_chart_data) = 2
    /\ Len(ApiData.bar_chart_data) = 3
    /\ \E i \in DOMAIN ApiData.bar_chart_data : ApiData.bar_chart_data[i].response_count = 2

\* C18: a response is in the date-filtered response set iff the date d
\* of its submitted_at satisfies date_from <= d when date_from is given
\* and d <= date_to when date_to is given, whatever its time of day: the
\* responses_query of the view holds exactly these rows, and has_data and
\* the bar series count them.
C18_DateBoundsAreInclusiveDays ==
    ApiReturned =>
        LET query == ResponsesQuery(request.user, request.GET)
            filtered == FilteredSet
        IN  /\ {query[k].id : k \in DOMAIN query} = {responses[i].id : i \in filtered}
            /\ Len(query) = Cardinality(filtered)
            /\ ApiData.has_data.responses = (filtered # {})
            /\ SumOf([i \in DOMAIN ApiData.bar_chart_data |->
                         ApiData.bar_chart_data[i].response_count]) = Cardinality(filtered)

\* The window is 2024-01-01 .. 2024-01-03; a response of the first minute
\* of the first day and one of the last minute of the last day are counted.
C18_Witness ==
    /\ ApiReturned
    /\ request.GET.date_from = Jan01 /\ request.GET.date_to = Jan03
    /\ Len(responses) = 2
    /\ responses[1].submitted_at = Instants[2]
    /\ responses[2].submitted_at = Instants[3]
    /\ Cardinality(FilteredSet) = 2
    /\ ApiData.has_data.line_chart

\* s is a date written YYYY-MM-DD (month and day of one or two digits):
\* a year of four digits, a '-', a month, a '-' and a day, the three of
\* them naming a day of the calendar.
IsDateString(s) ==
    \E k \in {7, 8} :
        /\ Len(s) \in (k + 1)..(k + 2)
        /\ {i \in DOMAIN s : ~IsDigitChar(s[i])} = {5, k}
        /\ s[5] = "-" /\ s[k] = "-"
        /\ LET year == int(SubSeq(s, 1, 4))
               month == int(SubSeq(s, 6, k - 1))
               day == int(SubSeq(s, k + 1, Len(s)))
           IN  /\ year >= 1 /\ month \in 1..12 /\ day >= 1
               /\ MonthOf(toordinal(year, month, day)) = month
               /\ DayOf(toordinal(year, month, day)) = day

\* A date of the request is supplied and is no date.
MalformedDateSupplied ==
    \/ Truthy(request.GET.date_from) /\ ~IsDateString(request.GET.date_from)
    \/ Truthy(request.GET.date_to) /\ ~IsDateString(request.GET.date_to)

\* C19: when a supplied date_from or date_to does not parse as YYYY-MM-DD,
\* the request is answered with an error and no analytics payload; when
\* the supplied dates parse, it is answered with the payload.
C19_MalformedDateIsAnError ==
    TeacherGetAnswered =>
        /\ MalformedDateSupplied =>
              /\ dashboard_analytics.status = 500
              /\ DOMAIN dashboard_analytics.body = {"error"}
        /\ ~MalformedDateSupplied => dashboard_analytics.status = 200

\* Only date_to is supplied, and it is no date.
C19_Witness ==
    /\ TeacherGetAnswered
    /\ request.GET.date_from = None
    /\ request.GET.date_to = Slashed
    /\ dashboard_analytics.status = 500

\* survey_analytics has computed the section_stats of a survey of the
\* teacher.
SectionStatsReturned ==
    /\ pc = "returned"
    /\ request.view = "survey_analytics"
    /\ "section_stats" \in DOMAIN dashboard_analytics

ResponseOf(answer) ==
    CHOOSE r \in Range(responses) : r.id = answer.response

\* C23: each response holds at most one Answer per question, and every
\* Answer of a response refers to a question of that response's survey.
C23_OneAnswerPerQuestionOfTheSurvey ==
    /\ \A i, j \in DOMAIN answers :
          (i # j /\ answers[i].response = answers[j].response)
              => answers[i].question # answers[j].question
    /\ \A i \in DOMAIN answers :
          /\ \E r \in Range(responses) : r.id = answers[i].response
          /\ \E q \in questions :
                /\ q.id = answers[i].question
                /\ q.survey = ResponseOf(answers[i]).survey

\* Two students have submitted a survey of two questions.
C23_Witness ==
    /\ Len(responses) = 2
    /\ Len(answers) = 4
    /\ Cardinality({answers[i].question : i \in DOMAIN answers}) = 2

\* C26: a question of any type that has zero answers gets an entry with
\* empty stats and, when it is a multiple_choice or likert_scale question,
\* a chart_data with empty labels and empty data; the call does not raise.
C26_NoAnswersGiveEmptyEntry ==
    /\ (pc = "raised") =>
          \E q \in SurveyQuestions(TheSurvey) : Len(AnswersOf(TheSurvey, q)) > 0
    /\ (pc = "returned") =>
          \A i \in DOMAIN analytics_data :
              LET entry == analytics_data[i]
              IN  Len(AnswersOf(TheSurvey, entry.question)) = 0 =>
                      /\ entry.stats = EmptyDict
                      /\ entry.responses = <<>>
                      /\ entry.type \in {"multiple_choice", "likert_scale"} =>
                            /\ entry.chart_data.labels = <<>>
                            /\ entry.chart_data.data = <<>>
                      /\ entry.type \in {"short_answer", "long_answer"} =>
                            entry.chart_data = EmptyDict

\* The analytics of a survey of a likert_scale and a multiple_choice
\* question that nobody has answered.
C26_Witness ==
    /\ pc = "returned"
    /\ answers = <<>>
    /\ Len(analytics_data) = 2
    /\ \E i \in DOMAIN analytics_data :
          /\ analytics_data[i].type = "likert_scale"
          /\ analytics_data[i].chart_data.labels = <<>>
    /\ \E i \in DOMAIN analytics_data :
          /\ analytics_data[i].type = "multiple_choice"
          /\ analytics_data[i].chart_data.data = <<>>

\* C27: for every set of answers that take_survey can store,
\* get_survey_analytics_data completes without raising.
C27_AnalyticsOfStoredAnswersCompletes ==
    pc # "raised"

\* The text without its leading and trailing spaces.
Trimmed(text) ==
    LET inked == {i \in DOMAIN text : text[i] # " "}
    IN  IF inked = {} THEN <<>>
        ELSE SubSeq(text,
                    CHOOSE i \in inked : \A j \in inked : i <= j,
                    CHOOSE i \in inked : \A j \in inked : j <= i)

\* C25: the entry of a short_answer or long_answer question has empty
\* stats and chart_data; its responses are the trimmed answer_text of every
\* answer whose text is not empty after trimming, in answer order; and that
\* list is what process_text_for_wordcloud was given.
C25_TextEntryHoldsTrimmedNonEmptyTexts ==
    (pc = "returned") =>
        \A i \in DOMAIN analytics_data :
            LET entry == analytics_data[i]
                ans == AnswersOf(TheSurvey, entry.question)
                trimmed == [k \in DOMAIN ans |-> Trimmed(ans[k].answer_text)]
            IN  entry.type \in {"short_answer", "long_answer"} =>
                    /\ entry.stats = EmptyDict
                    /\ entry.chart_data = EmptyDict
                    /\ entry.responses = SelectSeq(trimmed, LAMBDA t : t # <<>>)
                    /\ entry.word_cloud_data = ProcessTextForWordcloud(entry.responses)

\* The answers ' The dog ', '  ', '' and 'cat' in this order: the entry
\* holds 'The dog' and 'cat'.
C25_Witness ==
    /\ pc = "returned"
    /\ Len(answers) = 3
    /\ answers[1].answer_text = <<" ", "T", "h", "e", " ", "d", "o", "g", " ">>
    /\ answers[2].answer_text = <<" ", " ">>
    /\ answers[3].answer_text = <<"c", "a", "t">>
    /\ analytics_data[1].responses = << <<"T", "h", "e", " ", "d", "o", "g">>, <<"c", "a", "t">> >>
    /\ Len(analytics_data[1].word_cloud_data) = 2

\* C21: after any interleaving of take_survey requests, two concurrent
\* POSTs of one student for one survey included, no two SurveyResponse
\* rows hold the same survey and student.
C21_OneResponsePerSurveyAndStudent ==
    \A i, j \in DOMAIN responses :
        (responses[i].survey = responses[j].survey
            /\ responses[i].student = responses[j].student) => i = j

\* Two requests of student 1 for survey 1 have both passed the guards; one
\* has created the row and the other has ended in the IntegrityError.
C21_Witness ==
    /\ \E w \in Workers :
          /\ workers[w].at = "IntegrityError"
          /\ workers[w].user = 1
          /\ workers[w].survey = 1
    /\ Cardinality({i \in DOMAIN responses :
                        responses[i].survey = 1 /\ responses[i].student = 1}) = 1

\* The request of the user for the survey is one that take_survey admits:
\* the user is a student, the student's section is among the sections of
\* the survey, the survey is active and not past its due_date, and the
\* student has no response to it.
Admitted(user, survey_id) ==
    /\ UserProfiles[user].role = "student"
    /\ \E i \in DOMAIN Surveys :
          /\ Surveys[i].id = survey_id
          /\ UserProfiles[user].section \in Surveys[i].sections
          /\ Surveys[i].is_active
          /\ ~After(now, Surveys[i].due_date)
    /\ ~\E i \in DOMAIN responses :
            responses[i].survey = survey_id /\ responses[i].student = user

\* C28: take_survey goes on to create a SurveyResponse only for a request
\* it admits (a student, of a section of the survey, the survey open, no
\* earlier response); a response is created only by such a request, for
\* its student and survey and while the student has none, and answers
\* only for that response; every other step creates and changes no
\* response and no answer.
C28_ResponseOnlyForAdmittedRequest ==
    [][/\ \A w \in Workers :
             (workers[w].at # "create" /\ workers'[w].at = "create")
                 => Admitted(workers'[w].user, workers'[w].survey)
       /\ (responses' # responses) =>
             \E w \in Workers :
                 /\ workers[w].at = "create"
                 /\ ~\E i \in DOMAIN responses :
                        /\ responses[i].survey = workers[w].survey
                        /\ responses[i].student = workers[w].user
                 /\ Len(responses') = Len(responses) + 1
                 /\ SubSeq(responses', 1, Len(responses)) = responses
                 /\ responses'[Len(responses')].survey = workers[w].survey
                 /\ responses'[Len(responses')].student = workers[w].user
       /\ (answers' # answers) =>
             \E w \in Workers :
                 /\ workers[w].at = "answers"
                 /\ Len(answers') > Len(answers)
                 /\ SubSeq(answers', 1, Len(answers)) = answers
                 /\ \A i \in (Len(answers) + 1)..Len(answers') :
                        answers'[i].response = workers[w].response
      ]_vars

\* Student 2 has submitted survey 1 with its answer, and the survey has
\* been closed since: no request is admitted any more.
C28_Witness ==
    /\ Len(responses) = 1
    /\ responses[1].student = 2
    /\ responses[1].survey = 1
    /\ Len(answers) = 1
    /\ answers[1].response = responses[1].id
    /\ ~SurveyRow(1).is_active
    /\ \A user \in DOMAIN UserProfiles : ~Admitted(user, 1)

\* C29: in every reachable state, each pie_chart_data entry of the
\* unfiltered dashboard has responses <= possible and percentage <= 100.
C29_PieWithinPossible ==
    DashboardReturned =>
        \A i \in DOMAIN dashboard_analytics.pie_chart_data :
            /\ dashboard_analytics.pie_chart_data[i].responses
                  <= dashboard_analytics.pie_chart_data[i].possible
            /\ dashboard_analytics.pie_chart_data[i].percentage <= 1000

\* The profiles attached to the section of this code, and the surveys
\* assigned to it.
ProfilesOf(code) == {user \in DOMAIN UserProfiles : UserProfiles[user].section = code}

AssignedTo(code) == {Surveys[i].id : i \in {k \in DOMAIN Surveys : code \in Surveys[k].sections}}

\* C30: delete_section removes a section only when no user profile is
\* attached to it and no survey is assigned to it; a section that has a
\* profile or a survey stays, and the step that removes a section leaves
\* every other section, the profiles and the assignments as they are.
C30_SectionDeletedOnlyWhenUnused ==
    [][/\ \A i \in DOMAIN Sections :
             (ProfilesOf(Sections[i].code) # {} \/ AssignedTo(Sections[i].code) # {})
                 => \E j \in DOMAIN Sections' : Sections'[j] = Sections[i]
       /\ (Sections' # Sections) =>
             /\ \E i \in DOMAIN Sections :
                   /\ ProfilesOf(Sections[i].code) = {}
                   /\ AssignedTo(Sections[i].code) = {}
                   /\ Sections' = SelectSeq(Sections, LAMBDA section : section # Sections[i])
             /\ UNCHANGED <<UserProfiles, Surveys>>
      ]_vars

\* Section C has been deleted, after survey 2 was taken from it; the
\* sections A and B, which have profiles, are there.
C30_Witness ==
    /\ Len(Sections) = 2
    /\ \A i \in DOMAIN Sections : Sections[i].code # "C"
    /\ \A i \in DOMAIN Sections : ProfilesOf(Sections[i].code) # {}
    /\ \A i \in DOMAIN Surveys : "C" \notin Surveys[i].sections

\* The question an answer belongs to.
QuestionOf(answer) == CHOOSE q \in questions : q.id = answer.question

\* C22: in every reachable state, each stored Answer has exactly the value
\* channel of its question's current type populated: answer_choice for a
\* multiple_choice or likert_scale question, answer_text for a short_answer
\* or long_answer question.
C22_AnswerHoldsTheChannelOfItsQuestionType ==
    \A i \in DOMAIN answers :
        /\ \E q \in questions : q.id = answers[i].question
        /\ QuestionOf(answers[i]).question_type \in {"multiple_choice", "likert_scale"}
              => (answers[i].answer_choice # <<>> /\ answers[i].answer_text = <<>>)
        /\ QuestionOf(answers[i]).question_type \in {"short_answer", "long_answer"}
              => (answers[i].answer_text # <<>> /\ answers[i].answer_choice = <<>>)

\* The rows of the database.
StoredData == <<questions, responses, answers, UserProfiles, Surveys, Sections>>

\* What each of the three computations gives for the rows and the day of
\* the current state: the payloads of get_survey_analytics_data for the
\* orders the query can return the questions in, and the payloads of the
\* two dashboard computations for the request.
SurveyPayloads ==
    {[i \in DOMAIN qs |-> QuestionData(qs[i], AnswersOf(TheSurvey, qs[i]))] :
        qs \in QuestionsAll(TheSurvey)}

DashboardPayload == GetDashboardAnalyticsData(request.user)

FilteredPayload ==
    GetFilteredDashboardAnalytics(
        request.user, ResponsesQuery(request.user, request.GET), request.GET.survey_id,
        request.GET.section_id, request.GET.date_from, request.GET.date_to)

\* The payload the last call returned is the one a call in the current
\* state returns.
SecondCallGivesTheSame ==
    /\ (pc = "returned" /\ request = NoRequest) => analytics_data \in SurveyPayloads
    /\ (pc = "returned" /\ request.view = "teacher_dashboard")
          => dashboard_analytics = DashboardPayload
    /\ (pc = "returned" /\ request.view = "dashboard_analytics_api")
          => dashboard_analytics.body.data = FilteredPayload

====
